---- MODULE Spec2Model ----
(***************************************************************************)
(* A model of the bookmark manager: the CSV record store                   *)
(* (utils/csv_manager.js), the page capture pipeline                       *)
(* (utils/url_processor.js) and the IPC handlers of main.js that combine   *)
(* them, together with the renderer's calls.                               *)
(*                                                                         *)
(* A JavaScript string is a sequence of one-token strings, so that         *)
(* trimming and quoting act on its characters.  An object is a function    *)
(* whose DOMAIN is the set of its own keys: an absent key is a key that    *)
(* is not in the DOMAIN.                                                   *)
(***************************************************************************)
EXTENDS Integers, Sequences, FiniteSets, TLC

VARIABLES
    file,   \* the rows of bookmarks.csv below its header row, as written
    now,    \* the wall clock, in ticks
    last,   \* the latest call of a store operation and its outcome
    prev,   \* the call before it
    disk,   \* the screenshot files that exist
    cap,    \* the call of processURL or takeScreenshot in progress
    cache,  \* the renderer's list of bookmarks
    reqs,   \* the IPC requests in flight, by the position of their handler
    concurrent  \* two requests have been in flight at a time

storeVars == <<file, now>>
histVars == <<last, prev, concurrent>>
capVars == <<disk, cap>>
ipcVars == <<cache, reqs>>
vars == <<file, now, last, prev, disk, cap, cache, reqs, concurrent>>

----------------------------------------------------------------------------
(* Bounds of the model. *)

\* Store operations in one behaviour of SpecStore.
MaxOps == 2
\* Rows of an import source.
MaxImportRows == 2

----------------------------------------------------------------------------
(* JavaScript values. *)

Empty == <<>>
Undefined == <<"#undefined">>
BoolTrue == <<"#true">>
BoolFalse == <<"#false">>
StrTrue == <<"true">>
StrFalse == <<"false">>

\* obj[key]: undefined when obj has no such key.
Get(obj, key) == IF key \in DOMAIN obj THEN obj[key] ELSE Undefined

\* JavaScript truthiness of the values above.
Truthy(v) == v \notin {Undefined, Empty, BoolFalse}

\* v || d
OrElse(v, d) == IF Truthy(v) THEN v ELSE d

\* String(b) of a boolean b.
StringOf(b) == IF b THEN StrTrue ELSE StrFalse

\* { ...a, ...b }
ObjectSpread(a, b) ==
    [k \in (DOMAIN a) \cup (DOMAIN b) |-> IF k \in DOMAIN b THEN b[k] ELSE a[k]]

\* new Date().toISOString() at tick t.
IsoString(t) == <<"T" \o ToString(t)>>

IsSpace(c) == c = " "

RECURSIVE TrimLeft(_)
TrimLeft(s) == IF s # <<>> /\ IsSpace(Head(s)) THEN TrimLeft(Tail(s)) ELSE s

RECURSIVE TrimRight(_)
TrimRight(s) ==
    IF s # <<>> /\ IsSpace(s[Len(s)])
    THEN TrimRight(SubSeq(s, 1, Len(s) - 1))
    ELSE s

Trim(s) == TrimRight(TrimLeft(s))

----------------------------------------------------------------------------
(* The CSV file format: csv-stringify writes, csv-parse reads. *)

CSV_HEADERS == <<"URL", "Title", "Description", "Tags", "Date", "Favorite", "Screenshot">>

Headers == {CSV_HEADERS[i] : i \in 1..Len(CSV_HEADERS)}

\* csv-stringify quotes a field exactly when it holds the delimiter, a quote
\* or the record delimiter.
NeedsQuote(s) == \E i \in 1..Len(s) : s[i] \in {",", "\"", "\n"}

\* One field as stringify writes it.
StringifyCell(v) == [quoted |-> NeedsQuote(v), text |-> v]

\* One field as parse reads it under trim: true: the whitespace around an
\* unquoted field is dropped, the inside of a quoted field is kept.
ParseCell(c) == IF c.quoted THEN c.text ELSE Trim(c.text)

\* stringify(records, { header: true, columns: CSV_HEADERS })
Stringify(records) ==
    [i \in 1..Len(records) |-> [h \in Headers |-> StringifyCell(records[i][h])]]

\* parse({ columns: true }): one object per row, keyed by the header row.
ParseRow(row) == [h \in DOMAIN row |-> ParseCell(row[h])]

\* RowToBookmark with '' for a Favorite the row does not have.
RowToBookmark_EmptyFavorite(row) ==
    [h \in Headers |-> IF Get(row, h) # Undefined THEN row[h] ELSE Empty]

\* The 'data' handler of getBookmarks: every header field, with its default.
RowToBookmark(row) ==
    [h \in Headers |->
        IF Get(row, h) # Undefined THEN row[h]
        ELSE IF h = "Favorite" THEN StrFalse ELSE Empty]

\* The value of file when bookmarks.csv does not exist.
Absent == <<[absent |-> TRUE]>>

\* fs.existsSync(this.filePath)
Exists(f) == IF f = <<>> THEN TRUE ELSE "absent" \notin DOMAIN f[1]

\* ensureFileExists(): a file that does not exist is created with the
\* header row alone.
EnsuredFile(f) == IF Exists(f) THEN f ELSE <<>>

\* getBookmarks(): no record when there is no file; rows without URL are
\* skipped.
GetBookmarks(f) ==
    LET parsed == [i \in 1..Len(EnsuredFile(f)) |-> ParseRow(EnsuredFile(f)[i])]
        kept == SelectSeq(parsed, LAMBDA r : Truthy(Get(r, "URL")))
    IN  [i \in 1..Len(kept) |-> RowToBookmark(kept[i])]

\* ProcessedBookmarks with Favorite written as it was passed.
ProcessedBookmarks_FavoriteAsPassed(bookmarks) ==
    [i \in 1..Len(bookmarks) |->
        [h \in Headers |->
            IF Get(bookmarks[i], h) # Undefined THEN bookmarks[i][h] ELSE Empty]]

\* saveBookmarks(): the records as normalised before they are written.
ProcessedBookmarks(bookmarks) ==
    [i \in 1..Len(bookmarks) |->
        [h \in Headers |->
            IF h = "Favorite"
            THEN StringOf(Get(bookmarks[i], h) = StrTrue \/ Get(bookmarks[i], h) = BoolTrue)
            ELSE IF Get(bookmarks[i], h) # Undefined THEN bookmarks[i][h] ELSE Empty]]

\* NewBookmarkData with a Favorite test that forgets the boolean true.
NewBookmarkData_StringOnly(bookmark, t) ==
    [URL |-> bookmark.URL,
     Title |-> OrElse(Get(bookmark, "Title"), Empty),
     Description |-> OrElse(Get(bookmark, "Description"), Empty),
     Tags |-> OrElse(Get(bookmark, "Tags"), Empty),
     Date |-> OrElse(Get(bookmark, "Date"), IsoString(t)),
     Favorite |-> StringOf(Get(bookmark, "Favorite") = StrTrue),
     Screenshot |-> OrElse(Get(bookmark, "Screenshot"), Empty)]

\* saveBookmark(): the record built from the argument at tick t.
NewBookmarkData(bookmark, t) ==
    [URL |-> bookmark.URL,
     Title |-> OrElse(Get(bookmark, "Title"), Empty),
     Description |-> OrElse(Get(bookmark, "Description"), Empty),
     Tags |-> OrElse(Get(bookmark, "Tags"), Empty),
     Date |-> OrElse(Get(bookmark, "Date"), IsoString(t)),
     Favorite |-> StringOf(Get(bookmark, "Favorite") = StrTrue
                           \/ Get(bookmark, "Favorite") = BoolTrue),
     Screenshot |-> OrElse(Get(bookmark, "Screenshot"), Empty)]

\* bookmarks.findIndex(b => b.URL === url); 0 stands for JavaScript's -1.
FindIndex(bookmarks, url) ==
    IF \E i \in 1..Len(bookmarks) : bookmarks[i].URL = url
    THEN CHOOSE i \in 1..Len(bookmarks) :
            /\ bookmarks[i].URL = url
            /\ \A j \in 1..(i - 1) : bookmarks[j].URL # url
    ELSE 0

\* Upserted without the records read from the file.
Upserted_OnlyNew(bookmarks, bookmark, t) == <<NewBookmarkData(bookmark, t)>>

\* saveBookmark(): the list handed to saveBookmarks.
Upserted(bookmarks, bookmark, t) ==
    LET index == FindIndex(bookmarks, bookmark.URL)
        newBookmarkData == NewBookmarkData(bookmark, t)
    IN  IF index > 0
        THEN [bookmarks EXCEPT ![index] = ObjectSpread(bookmarks[index], newBookmarkData)]
        ELSE Append(bookmarks, newBookmarkData)

\* The 'data' handler of importFromCSV: as RowToBookmark, with Favorite
\* made 'true' or 'false'.
ImportedRow(row) ==
    [h \in Headers |->
        IF h = "Favorite"
        THEN StringOf(RowToBookmark(row)[h] = StrTrue \/ RowToBookmark(row)[h] = BoolTrue)
        ELSE RowToBookmark(row)[h]]

\* ImportedBookmarks without the test of row.URL.
ImportedBookmarks_KeepAll(rows) ==
    [i \in 1..Len(rows) |-> ImportedRow(ParseRow(rows[i]))]

\* importFromCSV(): the records read from the source, rows without URL skipped.
ImportedBookmarks(rows) ==
    LET parsed == [i \in 1..Len(rows) |-> ParseRow(rows[i])]
        kept == SelectSeq(parsed, LAMBDA r : Truthy(Get(r, "URL")))
    IN  [i \in 1..Len(kept) |-> ImportedRow(kept[i])]

\* map.set(b.URL, b) on a Map held as the sequence of its values in insertion
\* order: a key that is present keeps its place and takes the new value.
MapSet(map, b) ==
    IF FindIndex(map, b.URL) > 0
    THEN [map EXCEPT ![FindIndex(map, b.URL)] = b]
    ELSE Append(map, b)

\* new Map(currentBookmarks.map(b => [b.URL, b]))
RECURSIVE CurrentUrls(_)
CurrentUrls(bookmarks) ==
    IF bookmarks = <<>> THEN <<>>
    ELSE MapSet(CurrentUrls(SubSeq(bookmarks, 1, Len(bookmarks) - 1)),
                bookmarks[Len(bookmarks)])

\* MergeOne without the lookup of the URL: every imported record is added.
MergeOne_AlwaysAppend(map, imported) == Append(map, imported)

\* One step of importedBookmarks.forEach: Object.assign onto the record of
\* the same URL, or a new entry.
MergeOne(map, imported) ==
    IF FindIndex(map, imported.URL) > 0
    THEN [map EXCEPT ![FindIndex(map, imported.URL)] =
            ObjectSpread(map[FindIndex(map, imported.URL)], imported)]
    ELSE Append(map, imported)

\* Array.from(currentUrls.values()) after the forEach.
RECURSIVE MergedBookmarks(_, _)
MergedBookmarks(map, importedBookmarks) ==
    IF importedBookmarks = <<>> THEN map
    ELSE MergedBookmarks(MergeOne(map, Head(importedBookmarks)), Tail(importedBookmarks))

----------------------------------------------------------------------------
(* The arguments of the store operations. *)

\* Records with all seven fields: Favorite is a string, a boolean, or
\* another text; the Title of the last one has a leading blank.
FullIn ==
    {[URL |-> <<"u">>, Title |-> t, Description |-> <<"d">>, Tags |-> <<"g", ",", "h">>,
      Date |-> <<"D">>, Favorite |-> f, Screenshot |-> <<"s">>] :
        <<t, f>> \in {<< <<"a">>, StrTrue >>, << <<"a">>, BoolTrue >>,
                      << <<" ", "a">>, <<"yes">> >>}}

\* Records with a URL and a Title only, and records without a usable URL.
PartialIn ==
    {[URL |-> u, Title |-> <<"b">>] : u \in {<<"u">>, <<" ", "u">>, <<" ">>}}
    \cup {[URL |-> <<"u">>, Title |-> <<"a", " ">>],
          [Title |-> <<"a">>], [URL |-> Empty, Title |-> <<"a">>]}

BookmarkIn == FullIn \cup PartialIn

\* A cell of an import source that holds v, unquoted.
Cell(v) == [quoted |-> FALSE, text |-> v]

\* Rows of an import source: of the URL u, without URL, and of the URL w
\* from a file that has a URL and a Title column only.
ImportRowIn ==
    {[URL |-> Cell(u), Title |-> Cell(<<"i">>), Description |-> Cell(Empty),
      Tags |-> Cell(Empty), Date |-> Cell(<<"D">>), Favorite |-> Cell(<<"true">>),
      Screenshot |-> Cell(Empty)] : u \in {<<"u">>, Empty}}
    \cup {[URL |-> Cell(<<"w", " ">>), Title |-> Cell(<<"j">>)]}

RECURSIVE SeqsUpTo(_, _)
SeqsUpTo(S, n) ==
    IF n = 0 THEN {<<>>}
    ELSE SeqsUpTo(S, n - 1)
         \cup {Append(q, x) : q \in {r \in SeqsUpTo(S, n - 1) : Len(r) = n - 1}, x \in S}

\* Import sources: a path without file, files with a malformed row, their
\* rows being those read before it, and the files of up to MaxImportRows
\* rows.
ImportIn ==
    {[exists |-> FALSE, malformed |-> FALSE, rows |-> <<>>],
     [exists |-> TRUE, malformed |-> TRUE, rows |-> <<>>],
     [exists |-> TRUE, malformed |-> TRUE,
      rows |-> <<[URL |-> Cell(<<"w", " ">>), Title |-> Cell(<<"j">>)]>>]}
    \cup {[exists |-> TRUE, malformed |-> FALSE, rows |-> r] :
            r \in SeqsUpTo(ImportRowIn, MaxImportRows)}

NoCall == [op |-> "none", n |-> 0]

\* No call of the capture pipeline yet.
NoCapture == [pc |-> "idle"]

----------------------------------------------------------------------------
(* The store operations. *)

\* saveBookmark(bookmark), the write succeeding.
SaveBookmark(bookmark) ==
    /\ now < MaxOps
    /\ now' = now + 1
    /\ prev' = last
    /\ IF ~Truthy(Get(bookmark, "URL"))
       THEN /\ last' = [op |-> "saveBookmark", arg |-> bookmark, ok |-> FALSE,
                        io |-> FALSE, at |-> now + 1, before |-> GetBookmarks(file),
                        fileBefore |-> file, fileAfter |-> file]
            /\ file' = file
       ELSE LET bookmarks == Upserted(GetBookmarks(file), bookmark, now + 1)
                processed == ProcessedBookmarks(bookmarks)
            IN  /\ last' = [op |-> "saveBookmark", arg |-> bookmark, ok |-> TRUE,
                            io |-> TRUE, at |-> now + 1, before |-> GetBookmarks(file),
                            fileBefore |-> file, fileAfter |-> Stringify(processed),
                            ret |-> processed]
                /\ file' = Stringify(processed)
    /\ UNCHANGED <<capVars, ipcVars, concurrent>>

\* importFromCSV(sourcePath), src being the file at sourcePath, the write
\* succeeding.
ImportFromCSV(src) ==
    /\ now < MaxOps
    /\ now' = now + 1
    /\ prev' = last
    /\ LET call == [op |-> "importFromCSV", arg |-> src, at |-> now + 1,
                    before |-> GetBookmarks(file), fileBefore |-> file]
           importedBookmarks == ImportedBookmarks(src.rows)
           mergedBookmarks ==
               MergedBookmarks(CurrentUrls(GetBookmarks(file)), importedBookmarks)
       IN  IF ~src.exists \/ src.malformed
           THEN /\ last' = call @@ [ok |-> FALSE, io |-> FALSE, fileAfter |-> file,
                                     error |-> IF ~src.exists
                                               THEN <<"Import file not found: ">>
                                               ELSE <<"Failed to parse import file: ">>]
                /\ file' = file
           ELSE IF Len(importedBookmarks) = 0
           THEN /\ last' = call @@ [ok |-> TRUE, io |-> FALSE, ret |-> 0,
                                     fileAfter |-> file]
                /\ file' = file
           ELSE /\ last' = call @@ [ok |-> TRUE, io |-> TRUE,
                                     ret |-> Len(importedBookmarks),
                                     fileAfter |->
                                         Stringify(ProcessedBookmarks(mergedBookmarks))]
                /\ file' = Stringify(ProcessedBookmarks(mergedBookmarks))
    /\ UNCHANGED <<capVars, ipcVars, concurrent>>

InitStore ==
    /\ file = <<>>
    /\ now = 0
    /\ last = NoCall
    /\ prev = NoCall
    /\ disk = {}
    /\ cap = NoCapture
    /\ cache = <<>>
    /\ reqs = {}
    /\ concurrent = FALSE

NextStore ==
    \/ \E b \in BookmarkIn : SaveBookmark(b)
    \/ \E src \in ImportIn : ImportFromCSV(src)

SpecStore == InitStore /\ [][NextStore]_vars

----------------------------------------------------------------------------
(* Claims about the store. *)

\* The fields of the claim C1 that the second call may leave out.
OtherFields == {"Description", "Tags", "Date", "Favorite", "Screenshot"}

\* The positions of the stored records with URL url.
StoredAt(url) == {i \in 1..Len(GetBookmarks(file)) : GetBookmarks(file)[i].URL = url}

\* Every field of the record is read back from the file as it was written.
Plain(bookmark) ==
    \A h \in DOMAIN bookmark : ParseCell(StringifyCell(bookmark[h])) = bookmark[h]

\* last and prev are two successful upserts of one URL with different Titles,
\* of records whose text the file format keeps as it is.
TwoUpsertsOfOneUrl ==
    /\ last.op = "saveBookmark" /\ last.ok /\ Plain(last.arg)
    /\ prev.op = "saveBookmark" /\ prev.ok /\ Plain(prev.arg)
    /\ last.arg.URL = prev.arg.URL
    /\ Get(last.arg, "Title") # Get(prev.arg, "Title")

\* C1: after two upserts of one URL with different Titles the store holds
\* exactly one record for that URL, with the Title of the second call, and
\* every field the first call set and the second call left out still has the
\* value it had after the first call.
C1_SecondUpsertKeepsOmittedFields ==
    TwoUpsertsOfOneUrl =>
        /\ Cardinality(StoredAt(last.arg.URL)) = 1
        /\ \A i \in StoredAt(last.arg.URL) :
            /\ GetBookmarks(file)[i].Title = Get(last.arg, "Title")
            /\ \A h \in OtherFields :
                (h \in DOMAIN prev.arg /\ h \notin DOMAIN last.arg) =>
                    GetBookmarks(file)[i][h] = last.before[FindIndex(last.before, last.arg.URL)][h]

\* A value as it is read back from the file after it was written to it.
AsRead(v) == ParseCell(StringifyCell(v))

Expected(bookmark, h, t) ==
    IF h = "Favorite"
    THEN StringOf(Get(bookmark, h) = StrTrue \/ Get(bookmark, h) = BoolTrue)
    ELSE IF h = "Date" /\ ~Truthy(Get(bookmark, h)) THEN IsoString(t)
    ELSE IF Get(bookmark, h) = Undefined THEN Empty
    ELSE AsRead(bookmark[h])

RowUrl(row) == OrElse(Get(ParseRow(row), "URL"), Empty)

\* The URLs of a list of records.
UrlsOf(bookmarks) == {bookmarks[i].URL : i \in 1..Len(bookmarks)}

\* last is a successful import into a store of one record per URL.
ImportDone ==
    /\ last.op = "importFromCSV" /\ last.ok
    /\ Cardinality(UrlsOf(last.before)) = Len(last.before)

\* C3 as the spec states it: N rows in the source, M of them with a URL of
\* the store, leave existingCount + N - M records, and N is returned.
C3_ImportCountsRows ==
    ImportDone =>
        LET N == Len(last.arg.rows)
            M == Cardinality({i \in 1..N : RowUrl(last.arg.rows[i]) \in UrlsOf(last.before)})
        IN  /\ Len(GetBookmarks(file)) = Len(last.before) + N - M
            /\ last.ret = N

\* C3, amended: the store grows by the number of distinct URLs of the source
\* that it did not hold, and the number of source rows with a URL is returned.
C3_ImportCountsDistinctUrls ==
    ImportDone =>
        LET N == Len(last.arg.rows)
            withUrl == {i \in 1..N : RowUrl(last.arg.rows[i]) # Empty}
            newUrls == {RowUrl(last.arg.rows[i]) : i \in withUrl} \ UrlsOf(last.before)
        IN  /\ Len(GetBookmarks(file)) = Len(last.before) + Cardinality(newUrls)
            /\ last.ret = Cardinality(withUrl)

\* C3's case: a source that repeats a URL the store does not hold, next to a
\* row without URL or of a stored URL, has been imported into a store that
\* is not empty.
C3_Witness ==
    /\ ImportDone
    /\ last.before # <<>>
    /\ \E i, j \in 1..Len(last.arg.rows) :
        /\ i # j
        /\ RowUrl(last.arg.rows[i]) = RowUrl(last.arg.rows[j])
        /\ RowUrl(last.arg.rows[i]) \notin UrlsOf(last.before) \cup {Empty}

----------------------------------------------------------------------------
(* The LLM client (utils/llm_clients.js).  Each of its operations has one   *)
(* await, the HTTP request, and is one step here; last and prev hold the    *)
(* call and what it gave back.                                              *)

\* Calls of the LLM client in one behaviour of SpecLLM.
MaxLlmCalls == 2

\* What a call gives back: a value, or an exception.
Ok(v) == [threw |-> FALSE, value |-> v]

Throw(message) == [threw |-> TRUE, value |-> message]

\* this.provider as the constructor sets it from the endpoint URL.
ProviderIn == {"ollama", "generic"}

\* The texts a model answers with.
ReplyIn ==
    {<<"a", ",", "b">>, <<"\"", "Output:", " ", "a", ".", "\"">>, Empty}

\* response.data: the chat shape, the OpenAI shape, the legacy shape, an
\* object of another shape, and a body that is null.
DataIn ==
    {[message_content |-> t] : t \in ReplyIn}
    \cup {[choices_0_message_content |-> <<"a", ",", "b">>]}
    \cup {[response |-> <<"r">>], [response |-> <<"r">>, message_content |-> <<"m">>],
          [error |-> <<"e">>], [null |-> TRUE]}

IsNull(d) == "null" \in DOMAIN d

\* How axios settles a request.  It resolves for a 2xx status and rejects
\* otherwise: with error.response for another status, with error.request and
\* a code for a connection that failed or timed out, with neither for a
\* request it could not set up.
Resolved(status, data) == [settled |-> "resolved", status |-> status, data |-> data]

Rejected(status, request, code) ==
    [settled |-> "rejected", status |-> status, request |-> request, code |-> code]

HttpIn ==
    {Resolved(200, d) : d \in DataIn}
    \cup {Resolved(204, [error |-> <<"e">>])}
    \cup {Rejected(500, TRUE, "ERR_BAD_RESPONSE"), Rejected(404, TRUE, "ERR_BAD_REQUEST"),
          Rejected(0, TRUE, "ECONNREFUSED"), Rejected(0, TRUE, "ECONNABORTED"),
          Rejected(0, TRUE, ""), Rejected(0, FALSE, "")}

\* ExtractResponseText with the legacy shape looked at before the OpenAI
\* shape.
ExtractResponseText_ResponseFirst(provider, responseData) ==
    IF "null" \in DOMAIN responseData THEN Throw("TypeError")
    ELSE IF provider = "ollama" /\ Truthy(Get(responseData, "message_content"))
    THEN Ok(responseData.message_content)
    ELSE IF Truthy(Get(responseData, "response"))
    THEN Ok(responseData.response)
    ELSE IF Truthy(Get(responseData, "choices_0_message_content"))
    THEN Ok(responseData.choices_0_message_content)
    ELSE Ok(Empty)

\* _extractResponseText(responseData); reading a property of null throws.
ExtractResponseText(provider, responseData) ==
    IF IsNull(responseData) THEN Throw("TypeError")
    ELSE IF provider = "ollama" /\ Truthy(Get(responseData, "message_content"))
    THEN Ok(responseData.message_content)
    ELSE IF Truthy(Get(responseData, "choices_0_message_content"))
    THEN Ok(responseData.choices_0_message_content)
    ELSE IF Truthy(Get(responseData, "response"))
    THEN Ok(responseData.response)
    ELSE Ok(Empty)

\* The try block of _makeApiCall: the error it leaves to the catch block is
\* the rejection of axios, or an Error made in the block itself, which has
\* neither response nor request.
MakeApiCallTry(provider, http) ==
    IF http.settled = "rejected" THEN Throw(http)
    ELSE IF http.status = 200
    THEN IF ExtractResponseText(provider, http.data).threw
         THEN Throw(Rejected(0, FALSE, ""))
         ELSE Ok(Trim(ExtractResponseText(provider, http.data).value))
    ELSE Throw(Rejected(0, FALSE, ""))

\* The catch block of _makeApiCall: every branch throws a new Error.
MakeApiCallCatch(error) ==
    IF error.status # 0 THEN Throw("API Error")
    ELSE IF error.request
    THEN IF error.code # "" THEN Throw("Network Error") ELSE Throw("No response received")
    ELSE Throw("API Setup Error")

\* _makeApiCall(prompt), the request settling as http.
MakeApiCall(provider, http) ==
    IF MakeApiCallTry(provider, http).threw
    THEN MakeApiCallCatch(MakeApiCallTry(provider, http).value)
    ELSE MakeApiCallTry(provider, http)

IsQuoteOrSpace(c) == c \in {"\"", "'", " "}

RECURSIVE StripLeft(_)
StripLeft(s) == IF s # <<>> /\ IsQuoteOrSpace(Head(s)) THEN StripLeft(Tail(s)) ELSE s

RECURSIVE StripRight(_)
StripRight(s) ==
    IF s # <<>> /\ IsQuoteOrSpace(s[Len(s)])
    THEN StripRight(SubSeq(s, 1, Len(s) - 1))
    ELSE s

\* text.replace(/^["'\s]+|["'\s]+$/g, '')
StripQuotes(s) == StripRight(StripLeft(s))

\* text.replace(/^(prefix|...)\s*/i, ''): a leading preamble and the blanks
\* after it.
StripPrefix(s, prefixes) ==
    IF s # <<>> /\ Head(s) \in prefixes THEN TrimLeft(Tail(s)) ELSE s

\* tags.replace(/\.$/, '')
StripPeriod(s) ==
    IF s # <<>> /\ s[Len(s)] = "." THEN SubSeq(s, 1, Len(s) - 1) ELSE s

TagPrefixes == {"Tags:", "tags:", "Output:", "Response:", "Here are the tags:"}

DescriptionPrefixes ==
    {"Description:", "description:", "Output:", "Response:", "Here is the description:"}

\* GenerateTags with a catch block that throws the error on.
GenerateTags_Rethrow(provider, http) ==
    IF MakeApiCall(provider, http).threw
    THEN MakeApiCall(provider, http)
    ELSE Ok(StripPeriod(StripPrefix(StripQuotes(MakeApiCall(provider, http).value),
                                    TagPrefixes)))

\* generateTags(url, content): the cleaned reply, '' when the call threw.
GenerateTags(provider, http) ==
    IF MakeApiCall(provider, http).threw
    THEN Ok(Empty)
    ELSE Ok(StripPeriod(StripPrefix(StripQuotes(MakeApiCall(provider, http).value),
                                    TagPrefixes)))

\* generateDescription(url, content): the cleaned reply, '' when the call
\* threw.
GenerateDescription(provider, http) ==
    IF MakeApiCall(provider, http).threw
    THEN Ok(Empty)
    ELSE Ok(StripPrefix(StripQuotes(MakeApiCall(provider, http).value),
                        DescriptionPrefixes))

\* How the probe of checkService settles: axios.head and axios.get resolve
\* for a 2xx status.
ProbeIn ==
    {Resolved(200, [data |-> <<"m">>]), Resolved(204, [null |-> TRUE]),
     Rejected(401, TRUE, "ERR_BAD_REQUEST"),
     Rejected(0, TRUE, "ECONNREFUSED"), Rejected(0, TRUE, "ECONNABORTED"),
     Rejected(0, FALSE, "")}

\* errorMessage of the catch block of checkService.
ProbeErrorMessage(error) ==
    IF error.code # "" THEN <<error.code, " - Could not connect.">>
    ELSE IF error.status # 0 THEN <<"HTTP ", ToString(error.status)>>
    ELSE <<"message">>

\* CheckService with a catch block that throws the error on.
CheckService_Rethrow(provider, probe) ==
    IF probe.settled = "rejected"
    THEN Throw(ProbeErrorMessage(probe))
    ELSE Ok([available |-> BoolTrue, details |-> <<"reachable">>])

\* checkService(): a HEAD request to the base URL for ollama, a GET of
\* /v1/models otherwise.
CheckService(provider, probe) ==
    IF probe.settled = "rejected"
    THEN Ok([available |-> BoolFalse, error |-> ProbeErrorMessage(probe),
             details |-> IF probe.code # "" THEN <<probe.code>>
                         ELSE IF probe.status # 0 THEN <<ToString(probe.status)>>
                         ELSE Undefined])
    ELSE IF provider = "ollama"
    THEN Ok([available |-> BoolTrue, details |-> <<"Ollama base URL reachable">>])
    ELSE Ok([available |-> BoolTrue,
             details |-> IF IsNull(probe.data) THEN <<"API available, models: No Data">>
                         ELSE <<"API available, models: Available">>])

\* handleIPCError(error, operation)
HandleIPCError(message) == [success |-> FALSE, error |-> message]

\* ipcMain.handle('check-llm-service'): hasClient is whether llmClient is
\* set.
CheckLlmServiceHandler(hasClient, provider, probe) ==
    IF ~hasClient THEN HandleIPCError(<<"LLM Client not initialized">>)
    ELSE IF CheckService(provider, probe).threw
    THEN HandleIPCError(CheckService(provider, probe).value)
    ELSE [success |-> TRUE, data |-> CheckService(provider, probe).value]

\* A call of generateTags or generateDescription, the request settling as
\* http.
Generate(op, provider, http) ==
    /\ now < MaxLlmCalls
    /\ now' = now + 1
    /\ prev' = last
    /\ last' = [op |-> op, provider |-> provider, http |-> http,
                out |-> IF op = "generateTags" THEN GenerateTags(provider, http)
                        ELSE GenerateDescription(provider, http)]
    /\ UNCHANGED <<file, capVars, ipcVars, concurrent>>

\* The bodies _extractResponseText is handed: those of DataIn, and bodies
\* of more than one shape.
ExtractIn ==
    DataIn
    \cup {[message_content |-> <<"m">>, choices_0_message_content |-> <<"c">>,
           response |-> <<"r">>],
          [choices_0_message_content |-> <<"c">>, response |-> <<"r">>],
          [message_content |-> Empty, choices_0_message_content |-> <<"c">>],
          [message_content |-> <<"m">>, choices_0_message_content |-> Empty],
          [choices_0_message_content |-> Empty, response |-> <<"r">>],
          [response |-> Empty]}

\* A call of _extractResponseText(responseData), as _makeApiCall makes it
\* for a response of status 200.
ExtractText(provider, responseData) ==
    /\ now < MaxLlmCalls
    /\ now' = now + 1
    /\ prev' = last
    /\ last' = [op |-> "extractResponseText", provider |-> provider,
                data |-> responseData,
                out |-> ExtractResponseText(provider, responseData)]
    /\ UNCHANGED <<file, capVars, ipcVars, concurrent>>

\* The renderer invokes check-llm-service, the probe settling as probe.
CheckLlmService(hasClient, provider, probe) ==
    /\ now < MaxLlmCalls
    /\ now' = now + 1
    /\ prev' = last
    /\ last' = [op |-> "checkService", hasClient |-> hasClient, provider |-> provider,
                http |-> probe,
                out |-> CheckService(provider, probe),
                reply |-> CheckLlmServiceHandler(hasClient, provider, probe)]
    /\ UNCHANGED <<file, capVars, ipcVars, concurrent>>

InitLLM ==
    /\ file = <<>>
    /\ now = 0
    /\ last = NoCall
    /\ prev = NoCall
    /\ disk = {}
    /\ cap = NoCapture
    /\ cache = <<>>
    /\ reqs = {}
    /\ concurrent = FALSE

NextLLM ==
    \/ \E provider \in ProviderIn, http \in HttpIn : Generate("generateTags", provider, http)
    \/ \E provider \in ProviderIn, http \in HttpIn :
           Generate("generateDescription", provider, http)
    \/ \E hasClient \in BOOLEAN, provider \in ProviderIn, probe \in ProbeIn :
           CheckLlmService(hasClient, provider, probe)
    \/ \E provider \in ProviderIn, responseData \in ExtractIn :
           ExtractText(provider, responseData)

SpecLLM == InitLLM /\ [][NextLLM]_vars

----------------------------------------------------------------------------
(* Claims about the LLM client. *)

\* The HTTP call failed: no response, or a response of a status other than
\* 200.
HttpFailed(http) == http.settled = "rejected" \/ http.status # 200

\* C11: generateTags and generateDescription never throw, and return the
\* empty string whenever the HTTP call failed: on a network error, a timeout,
\* a 4xx or 5xx response, or any response of a status other than 200.
C11_GenerateSwallowsHttpFailures ==
    (last.op \in {"generateTags", "generateDescription"}) =>
        /\ ~last.out.threw
        /\ HttpFailed(last.http) => last.out.value = Empty

\* C11's case: generateTags against an endpoint answering HTTP 500 has
\* returned '', after a call that returned the tags of a reply.
C11_Witness ==
    /\ last.op = "generateTags" /\ last.http = Rejected(500, TRUE, "ERR_BAD_RESPONSE")
    /\ last.out = Ok(Empty)
    /\ prev.op = "generateTags" /\ prev.out = Ok(<<"a", ",", "b">>)

\* C18: checkService never throws; it returns an object whose available is a
\* boolean, true exactly when the probe request succeeded, for both provider
\* families, and the check-llm-service handler always resolves with a
\* structured result.
C18_CheckServiceNeverThrows ==
    last.op = "checkService" =>
        /\ ~last.out.threw
        /\ last.out.value.available \in {BoolTrue, BoolFalse}
        /\ last.out.value.available = BoolTrue <=> last.http.settled = "resolved"
        /\ "success" \in DOMAIN last.reply
        /\ last.reply.success => last.reply.data = last.out.value
        /\ ~last.reply.success => (~last.hasClient /\ last.reply.error # Empty)

\* C18's case: the probe of an ollama endpoint has timed out and that of
\* another provider has answered HTTP 401, both reported as unavailable.
C18_Witness ==
    /\ last.op = "checkService" /\ last.hasClient /\ last.provider = "ollama"
    /\ last.http = Rejected(0, TRUE, "ECONNABORTED")
    /\ last.reply.success /\ last.reply.data.available = BoolFalse
    /\ prev.op = "checkService" /\ prev.hasClient /\ prev.provider = "generic"
    /\ prev.http = Rejected(401, TRUE, "ERR_BAD_REQUEST")
    /\ prev.out.value.available = BoolFalse

----------------------------------------------------------------------------
(* The capture pipeline: processURL and takeScreenshot, one step per await. *)

\* Screenshots taken in one behaviour of SpecCapture.
MaxShots == 2

\* url.startsWith('http://') || url.startsWith('https://')
HasScheme(url) == url # <<>> /\ Head(url) \in {"http://", "https://"}

\* The url after the scheme test at the head of both functions.
WithScheme(url) == IF HasScheme(url) THEN url ELSE <<"https://">> \o url

\* path.join(screenshotDir, `${Date.now()}_${urlHash}.png`) at tick t.  The
\* first ten characters of the base64 text of a url are those of its scheme,
\* so that the name tells the urls of one scheme apart by the tick alone.
ScreenshotPath(url, t) == <<"F" \o ToString(t)>>

\* The outcomes of page.screenshot({ path }): the file as written, a failure
\* that wrote nothing, and a failure that left an incomplete file.
ScreenshotOutcomes ==
    {[ok |-> TRUE, wrote |-> TRUE], [ok |-> FALSE, wrote |-> FALSE],
     [ok |-> FALSE, wrote |-> TRUE]}

\* FinalScreenshotPath without the look at the disk.
FinalScreenshotPath_Unchecked(screenshotPath, files) == screenshotPath

\* fs.existsSync(screenshotPath) ? screenshotPath : ""
FinalScreenshotPath(screenshotPath, files) ==
    IF screenshotPath \in files THEN screenshotPath ELSE Empty

\* The record processURL returns at tick t.
ProcessURLResult(url, title, description, tags, t, finalScreenshotPath) ==
    [URL |-> url,
     Title |-> OrElse(title, <<"Untitled">>),
     Description |-> OrElse(description, Empty),
     Tags |-> OrElse(tags, Empty),
     Date |-> IsoString(t),
     Favorite |-> StrFalse,
     Screenshot |-> finalScreenshotPath]

\* The urls a capture is asked for, and whether an LLM client is configured.
CaptureUrlIn == {<<"https://", "u">>, <<"w">>}

\* What page.title() resolves to.
TitleIn == {<<"t">>, Empty}

\* How the requests of generateTags and generateDescription settle: a
\* reply, a reply without text, HTTP 500, a timeout.
LlmIn ==
    {[settled |-> "resolved", status |-> 200, data |-> [choices_0_message_content |-> <<"g">>]],
     [settled |-> "resolved", status |-> 200, data |-> [choices_0_message_content |-> Empty]],
     [settled |-> "rejected", status |-> 500, request |-> TRUE, code |-> "ERR_BAD_RESPONSE"],
     [settled |-> "rejected", status |-> 0, request |-> TRUE, code |-> "ECONNABORTED"]}

\* try { x = await call } catch (e) { ... }: x keeps the value it had when
\* the call throws.
OrCaught(result, initial) == IF result.threw THEN initial ELSE result.value

\* The next await of fn after the one at pc, none of them throwing.
After(fn, pc) ==
    IF fn = "processURL"
    THEN CASE pc = "launch" -> "newPage"
           [] pc = "newPage" -> "goto"
           [] pc = "goto" -> "title"
           [] pc = "title" -> "hideCookieBanners"
           [] pc = "hideCookieBanners" -> "bodyText"
           [] pc = "bodyText" -> "screenshot"
           [] pc = "screenshot" -> "close"
           [] pc = "close" -> "llm"
           [] pc = "llm" -> "return"
    ELSE CASE pc = "launch" -> "newPage"
           [] pc = "newPage" -> "goto"
           [] pc = "goto" -> "hideCookieBanners"
           [] pc = "hideCookieBanners" -> "screenshot"
           [] pc = "screenshot" -> "close"
           [] pc = "close" -> "return"

\* The call has returned or thrown.
Exited(c) == c.pc \in {"returned", "thrown"}

\* processURL(url) or takeScreenshot(url) is called: browser = null.
StartCapture(fn, url, llmClient) ==
    /\ cap.pc = "idle" \/ Exited(cap)
    /\ now < MaxShots
    /\ cap' = [fn |-> fn, url |-> WithScheme(url), llmClient |-> llmClient,
               pc |-> "launch", browser |-> FALSE, session |-> "none",
               closes |-> 0, failed |-> 0, title |-> Empty,
               screenshotPath |-> Empty, tags |-> Empty, description |-> Empty,
               out |-> Empty, navigation |-> "none", titleThrew |-> FALSE,
               shot |-> "none", tagsFailed |-> FALSE, descriptionFailed |-> FALSE,
               tagsHttp |-> [settled |-> "none"],
               descriptionHttp |-> [settled |-> "none"]]
    /\ UNCHANGED <<storeVars, histVars, disk, ipcVars>>

\* browser = await puppeteer.launch(...): a session is running, or the
\* launch throws.
Launch ==
    /\ cap.pc = "launch"
    /\ \/ cap' = [cap EXCEPT !.pc = After(cap.fn, "launch"), !.browser = TRUE,
                             !.session = "open"]
       \/ cap' = [cap EXCEPT !.pc = "catch"]
    /\ UNCHANGED <<storeVars, histVars, disk, ipcVars>>

\* newPage, setUserAgent, setViewport: any of them may throw.
NewPage ==
    /\ cap.pc = "newPage"
    /\ \/ cap' = [cap EXCEPT !.pc = After(cap.fn, "newPage")]
       \/ cap' = [cap EXCEPT !.pc = "catch"]
    /\ UNCHANGED <<storeVars, histVars, disk, ipcVars>>

\* page.goto(...).catch(...): a navigation error or timeout is logged and
\* passed over.
Goto ==
    /\ cap.pc = "goto"
    /\ \E navigation \in {"ok", "timeout"} :
        cap' = [cap EXCEPT !.pc = After(cap.fn, "goto"), !.navigation = navigation]
    /\ UNCHANGED <<storeVars, histVars, disk, ipcVars>>

\* page.title().catch(e => 'Untitled')
Title ==
    /\ cap.pc = "title"
    /\ \/ \E title \in TitleIn :
            cap' = [cap EXCEPT !.pc = After(cap.fn, "title"), !.title = title]
       \/ cap' = [cap EXCEPT !.pc = After(cap.fn, "title"), !.title = <<"Untitled">>,
                              !.titleThrew = TRUE]
    /\ UNCHANGED <<storeVars, histVars, disk, ipcVars>>

\* hideCookieBanners(page): its own try/catch swallows every error.
HideCookieBanners ==
    /\ cap.pc = "hideCookieBanners"
    /\ cap' = [cap EXCEPT !.pc = After(cap.fn, "hideCookieBanners")]
    /\ UNCHANGED <<storeVars, histVars, disk, ipcVars>>

\* page.evaluate(...).catch(...): the text goes to the LLM prompt only.
BodyText ==
    /\ cap.pc = "bodyText"
    /\ cap' = [cap EXCEPT !.pc = After(cap.fn, "bodyText")]
    /\ UNCHANGED <<storeVars, histVars, disk, ipcVars>>

\* page.screenshot({ path: screenshotPath }).  processURL catches a failure
\* and goes on; the unlink in its catch names fsp, which the file does not
\* define, so an incomplete file stays.  takeScreenshot lets the failure
\* reach its outer catch.
Screenshot ==
    /\ cap.pc = "screenshot"
    /\ now' = now + 1
    /\ \E o \in ScreenshotOutcomes :
        /\ disk' = IF o.wrote THEN disk \cup {ScreenshotPath(cap.url, now + 1)} ELSE disk
        /\ cap' = [cap EXCEPT
                     !.screenshotPath = ScreenshotPath(cap.url, now + 1),
                     !.shot = IF o.ok THEN "ok" ELSE "failed",
                     !.pc = IF o.ok \/ cap.fn = "processURL"
                            THEN After(cap.fn, "screenshot") ELSE "catch"]
    /\ UNCHANGED <<file, histVars, ipcVars>>

\* The session after a call of browser.close() that threw: still running,
\* or gone all the same.
AfterFailedClose(session) == {"open", "closed"}

\* await browser.close(); browser = null.  A close that throws leaves
\* browser set and reaches the outer catch.
Close ==
    /\ cap.pc = "close"
    /\ \/ cap' = [cap EXCEPT !.pc = After(cap.fn, "close"), !.browser = FALSE,
                             !.session = "closed", !.closes = @ + 1]
       \/ \E s \in AfterFailedClose(cap.session) :
            cap' = [cap EXCEPT !.pc = "catch", !.session = s,
                               !.closes = @ + 1, !.failed = @ + 1]
    /\ UNCHANGED <<storeVars, histVars, disk, ipcVars>>

\* Llm with generateDescription inside the try block of generateTags, after
\* a test of the tags.
Llm_DescriptionAfterTags ==
    /\ cap.pc = "llm"
    /\ IF cap.llmClient
       THEN \E tagsHttp \in LlmIn, descriptionHttp \in LlmIn :
                cap' = [cap EXCEPT
                          !.pc = After(cap.fn, "llm"),
                          !.tags = OrCaught(GenerateTags("generic", tagsHttp), Empty),
                          !.description =
                              IF OrCaught(GenerateTags("generic", tagsHttp), Empty) = Empty
                              THEN Empty
                              ELSE OrCaught(GenerateDescription("generic", descriptionHttp),
                                            Empty),
                          !.tagsFailed = HttpFailed(tagsHttp),
                          !.descriptionFailed = HttpFailed(descriptionHttp),
                          !.tagsHttp = tagsHttp,
                          !.descriptionHttp = descriptionHttp]
       ELSE cap' = [cap EXCEPT !.pc = After(cap.fn, "llm")]
    /\ UNCHANGED <<storeVars, histVars, disk, ipcVars>>

\* generateTags and generateDescription, each in its own try/catch; nothing
\* is asked without a client.
Llm ==
    /\ cap.pc = "llm"
    /\ IF cap.llmClient
       THEN \E tagsHttp \in LlmIn, descriptionHttp \in LlmIn :
                cap' = [cap EXCEPT
                          !.pc = After(cap.fn, "llm"),
                          !.tags = OrCaught(GenerateTags("generic", tagsHttp), Empty),
                          !.description =
                              OrCaught(GenerateDescription("generic", descriptionHttp), Empty),
                          !.tagsFailed = HttpFailed(tagsHttp),
                          !.descriptionFailed = HttpFailed(descriptionHttp),
                          !.tagsHttp = tagsHttp,
                          !.descriptionHttp = descriptionHttp]
       ELSE cap' = [cap EXCEPT !.pc = After(cap.fn, "llm")]
    /\ UNCHANGED <<storeVars, histVars, disk, ipcVars>>

\* The return statement of either function.
Return ==
    /\ cap.pc = "return"
    /\ cap' = [cap EXCEPT
                 !.pc = "returned",
                 !.out = IF cap.fn = "processURL"
                         THEN ProcessURLResult(cap.url, cap.title, cap.description,
                                               cap.tags, now,
                                               FinalScreenshotPath(cap.screenshotPath, disk))
                         ELSE [Screenshot |->
                                   FinalScreenshotPath(cap.screenshotPath, disk)]]
    /\ UNCHANGED <<storeVars, histVars, disk, ipcVars>>

\* CatchClose without the call of close.
CatchClose_Skipped(c) == {c}

\* if (browser) { try { await browser.close(); } catch (closeError) {...} }
CatchClose(c) ==
    IF c.browser
    THEN {[c EXCEPT !.session = "closed", !.closes = @ + 1]}
         \cup {[c EXCEPT !.session = s, !.closes = @ + 1, !.failed = @ + 1] :
                 s \in AfterFailedClose(c.session)}
    ELSE {c}

\* The outer catch of either function: close, then throw.
Catch ==
    /\ cap.pc = "catch"
    /\ \E c \in CatchClose(cap) : cap' = [c EXCEPT !.pc = "thrown"]
    /\ UNCHANGED <<storeVars, histVars, disk, ipcVars>>

InitCapture ==
    /\ file = <<>>
    /\ now = 0
    /\ last = NoCall
    /\ prev = NoCall
    /\ disk = {}
    /\ cap = NoCapture
    /\ cache = <<>>
    /\ reqs = {}
    /\ concurrent = FALSE

NextCapture ==
    \/ \E fn \in {"processURL", "takeScreenshot"}, url \in CaptureUrlIn,
          llmClient \in BOOLEAN : StartCapture(fn, url, llmClient)
    \/ Launch
    \/ NewPage
    \/ Goto
    \/ Title
    \/ HideCookieBanners
    \/ BodyText
    \/ Screenshot
    \/ Close
    \/ Llm
    \/ Return
    \/ Catch

SpecCapture == InitCapture /\ [][NextCapture]_vars

----------------------------------------------------------------------------
(* Claims about the capture pipeline. *)

C5_ReturnedScreenshotExists ==
    cap.pc = "returned" => (cap.out.Screenshot = Empty \/ cap.out.Screenshot \in disk)

\* C5's cases: processURL has returned after a screenshot that failed and
\* wrote nothing, with an empty Screenshot, while a file of an earlier
\* capture exists.
C5_Witness ==
    /\ cap.pc = "returned" /\ cap.fn = "processURL"
    /\ cap.screenshotPath \notin disk
    /\ cap.out.Screenshot = Empty
    /\ disk # {}

----------------------------------------------------------------------------
(* The renderer and the IPC handlers of main.js.  A handler runs up to its   *)
(* next await in one step; the handlers of the requests in flight take their *)
(* steps in any order.  The file is read and written whole, each in one      *)
(* step, and every read and write of it succeeds.                            *)

\* Requests in one behaviour.
MaxRequests == 3
\* Requests in flight at a time.
MaxInFlight == 2

\* The urls typed into the url field.
AddUrlIn == {<<"https://", "u">>, <<"w">>}

\* The store as an import of a file with a URL and a Title column leaves it:
\* one record, without Date and without Screenshot.
ImportedStore ==
    Stringify(ProcessedBookmarks(ImportedBookmarks(
        <<[URL |-> Cell(<<"https://", "w">>), Title |-> Cell(<<"j">>)]>>)))

\* An element of app.bookmarks that was never assigned.
Hole == [hole |-> TRUE]

IsHole(b) == "hole" \in DOMAIN b

\* this.bookmarks.find(b => b.URL === url): the index of the entry, 0 when
\* there is none or when reading b.URL of a hole throws first.
FindInCache(bookmarks, url) ==
    LET hits == {i \in 1..Len(bookmarks) : IsHole(bookmarks[i]) \/ bookmarks[i].URL = url}
    IN  IF hits = {} THEN 0
        ELSE LET first == CHOOSE i \in hits : \A j \in hits : i <= j
             IN  IF IsHole(bookmarks[first]) THEN 0 ELSE first

\* this.bookmarks[index] = b: an index past the end leaves holes below it.
SetAt(bookmarks, index, b) ==
    [i \in 1..(IF index > Len(bookmarks) THEN index ELSE Len(bookmarks)) |->
        IF i = index THEN b
        ELSE IF i <= Len(bookmarks) THEN bookmarks[i] ELSE Hole]

\* this.bookmarks.filter(b => b.URL !== url): filter passes over holes.
FilterOut(bookmarks, url) ==
    SelectSeq(bookmarks, LAMBDA b : ~IsHole(b) /\ b.URL # url)

\* String(bookmark.Favorite).toLowerCase() === 'true'
IsFavorite(bookmark) == Get(bookmark, "Favorite") \in {StrTrue, BoolTrue}

\* The boolean b as a JavaScript value.
Bool(b) == IF b THEN BoolTrue ELSE BoolFalse

\* existingBookmarks.find(b => b.URL === url), Undefined when there is none.
ExistingBookmark(bookmarks, url) ==
    IF FindIndex(bookmarks, url) > 0 THEN bookmarks[FindIndex(bookmarks, url)]
    ELSE [URL |-> Undefined]

Found(existing) == existing.URL # Undefined

\* UpdatedBookmarkData starting from the caller's copy in every case.
UpdatedBookmarkData_FromCaller(existing, bookmark, field, value) ==
    ObjectSpread(bookmark, (field :> value))

\* { ...existingBookmark, [field]: value }, the caller's copy standing in
\* for a record the store does not hold.
UpdatedBookmarkData(existing, bookmark, field, value) ==
    ObjectSpread(IF Found(existing) THEN existing ELSE bookmark, (field :> value))

\* A request as the renderer sends it.
Request(op, arg, index) ==
    [id |-> now + 1, op |-> op, arg |-> arg, index |-> index, pc |-> "start",
     ok |-> TRUE, data |-> [URL |-> Undefined], existing |-> [URL |-> Undefined],
     seen |-> <<>>, seenN |-> 0, readN |-> 0, newScreenshotPath |-> Empty, unlinkFailed |-> FALSE]

\* The request r with the fields of change.
With(r, change) == ObjectSpread(r, change)

\* app.addBookmark: the Add button is disabled while a request to add is in
\* flight.
ClickAdd(url) ==
    /\ now < MaxRequests
    /\ Cardinality(reqs) < MaxInFlight
    /\ concurrent' = (concurrent \/ reqs # {})
    /\ \A r \in reqs : r.op # "add-bookmark"
    /\ now' = now + 1
    /\ reqs' = reqs \cup {Request("add-bookmark", WithScheme(Trim(url)), 0)}
    /\ UNCHANGED <<file, last, prev, capVars, cache>>

\* app.toggleFavorite: the click finds the bookmark in the cache, keeps a
\* copy and the index, and flips the Favorite of the cache entry at once.
ClickToggle(url) ==
    /\ now < MaxRequests
    /\ Cardinality(reqs) < MaxInFlight
    /\ concurrent' = (concurrent \/ reqs # {})
    /\ FindInCache(cache, url) > 0
    /\ now' = now + 1
    /\ reqs' = reqs \cup {Request("toggle-favorite", cache[FindInCache(cache, url)],
                                  FindInCache(cache, url))}
    /\ cache' = [cache EXCEPT ![FindInCache(cache, url)] =
                    With(@, [Favorite |-> StringOf(~IsFavorite(@))])]
    /\ UNCHANGED <<file, last, prev, capVars>>

\* app.updateScreenshot
ClickUpdate(url) ==
    /\ now < MaxRequests
    /\ Cardinality(reqs) < MaxInFlight
    /\ concurrent' = (concurrent \/ reqs # {})
    /\ FindInCache(cache, url) > 0
    /\ now' = now + 1
    /\ reqs' = reqs \cup {Request("update-screenshot", cache[FindInCache(cache, url)], 0)}
    /\ UNCHANGED <<file, last, prev, capVars, cache>>

\* app.deleteBookmark, the dialog confirmed
ClickDelete(url) ==
    /\ now < MaxRequests
    /\ Cardinality(reqs) < MaxInFlight
    /\ concurrent' = (concurrent \/ reqs # {})
    /\ FindInCache(cache, url) > 0
    /\ now' = now + 1
    /\ reqs' = reqs \cup {Request("delete-bookmark", cache[FindInCache(cache, url)], 0)}
    /\ UNCHANGED <<file, last, prev, capVars, cache>>

\* What await urlProcessor.processURL(url) leaves for the request of tick t:
\* a record and its file, a record without file, or an exception, with or
\* without a file left behind.
ProcessURLOutcomes(url, t) ==
    {[ok |-> TRUE, wrote |-> wrote,
      value |-> ProcessURLResult(WithScheme(url), <<"t">>, Empty, Empty, t,
                    FinalScreenshotPath(ScreenshotPath(url, t),
                        IF wrote THEN {ScreenshotPath(url, t)} ELSE {}))] :
        wrote \in BOOLEAN}
    \cup {[ok |-> FALSE, wrote |-> wrote, value |-> [URL |-> Undefined]] : wrote \in BOOLEAN}

\* What await urlProcessor.takeScreenshot(url) leaves: the path of the file
\* written, or an exception, with or without a file left behind.
TakeScreenshotOutcomes(url, t) ==
    {[ok |-> TRUE, wrote |-> TRUE, value |-> ScreenshotPath(url, t)]}
    \cup {[ok |-> FALSE, wrote |-> wrote, value |-> Empty] : wrote \in BOOLEAN}

\* add-bookmark up to the return of processURL.
AddProcessURL(r) ==
    /\ r.op = "add-bookmark" /\ r.pc = "start"
    /\ \E o \in ProcessURLOutcomes(r.arg, r.id) :
        /\ disk' = IF o.wrote THEN disk \cup {ScreenshotPath(r.arg, r.id)} ELSE disk
        /\ reqs' = (reqs \ {r}) \cup
                   {IF o.ok THEN With(r, [pc |-> "saveBookmark", data |-> o.value])
                    ELSE With(r, [pc |-> "reply", ok |-> FALSE])}
    /\ UNCHANGED <<storeVars, histVars, cap, cache>>

\* toggle-favorite up to the return of getBookmarks.
ToggleGetBookmarks(r) ==
    /\ r.op = "toggle-favorite" /\ r.pc = "start"
    /\ LET existing == ExistingBookmark(GetBookmarks(file), r.arg.URL)
       IN  reqs' = (reqs \ {r}) \cup
               {With(r, [pc |-> "saveBookmark", existing |-> existing, readN |-> last.n,
                         data |-> UpdatedBookmarkData(existing, r.arg, "Favorite",
                                                      Bool(~IsFavorite(r.arg)))])}
    /\ UNCHANGED <<storeVars, histVars, capVars, cache>>

\* update-screenshot up to the return of takeScreenshot.
UpdateTakeScreenshot(r) ==
    /\ r.op = "update-screenshot" /\ r.pc = "start"
    /\ \E o \in TakeScreenshotOutcomes(r.arg.URL, r.id) :
        /\ disk' = IF o.wrote THEN disk \cup {ScreenshotPath(r.arg.URL, r.id)} ELSE disk
        /\ reqs' = (reqs \ {r}) \cup
                   {IF o.ok THEN With(r, [pc |-> "getBookmarks", newScreenshotPath |-> o.value])
                    ELSE With(r, [pc |-> "reply", ok |-> FALSE])}
    /\ UNCHANGED <<storeVars, histVars, cap, cache>>

\* update-screenshot up to the return of getBookmarks.
UpdateGetBookmarks(r) ==
    /\ r.op = "update-screenshot" /\ r.pc = "getBookmarks"
    /\ LET existing == ExistingBookmark(GetBookmarks(file), r.arg.URL)
       IN  reqs' = (reqs \ {r}) \cup
               {With(r, [pc |-> "saveBookmark", existing |-> existing, readN |-> last.n,
                         data |-> UpdatedBookmarkData(existing, r.arg, "Screenshot",
                                                      r.newScreenshotPath)])}
    /\ UNCHANGED <<storeVars, histVars, capVars, cache>>

\* saveBookmark(data) in a handler, up to the return of its getBookmarks.
SaveBookmarkRead(r) ==
    /\ r.pc = "saveBookmark"
    /\ reqs' = (reqs \ {r}) \cup
               {With(r, [pc |-> "saveBookmarks", seen |-> GetBookmarks(file),
                         seenN |-> last.n,
                         readN |-> IF r.op = "add-bookmark" THEN last.n ELSE r.readN])}
    /\ UNCHANGED <<storeVars, histVars, capVars, cache>>

\* saveBookmark(data) in a handler, from there to the end of writeFile.
SaveBookmarkWrite(r) ==
    /\ r.pc = "saveBookmarks"
    /\ file' = Stringify(ProcessedBookmarks(Upserted(r.seen, r.data, now)))
    /\ prev' = last
    /\ last' = [op |-> "saveBookmark", by |-> r.op, req |-> r.arg, arg |-> r.data,
                n |-> last.n + 1, overlapped |-> r.seenN # last.n,
                raced |-> r.readN # last.n, at |-> now,
                before |-> GetBookmarks(file), seen |-> r.seen,
                existing |-> r.existing, ok |-> TRUE]
    /\ reqs' = (reqs \ {r}) \cup
               {With(r, [pc |-> IF r.op = "update-screenshot" THEN "unlink" ELSE "reply"])}
    /\ UNCHANGED <<now, capVars, cache, concurrent>>

\* delete-bookmark up to the return of getBookmarks.
DeleteGetBookmarks(r) ==
    /\ r.op = "delete-bookmark" /\ r.pc = "start"
    /\ reqs' = (reqs \ {r}) \cup
               {With(r, [pc |-> "filtered", seen |-> GetBookmarks(file),
                         seenN |-> last.n, readN |-> last.n])}
    /\ UNCHANGED <<storeVars, histVars, capVars, cache>>

\* FilteredBookmarks with the test turned round.
FilteredBookmarks_Inverted(bookmarks, url) == SelectSeq(bookmarks, LAMBDA b : b.URL = url)

\* bookmarks.filter(b => b.URL !== bookmark.URL)
FilteredBookmarks(bookmarks, url) == SelectSeq(bookmarks, LAMBDA b : b.URL # url)

\* delete-bookmark from there to the end of saveBookmarks(filteredBookmarks).
DeleteSaveBookmarks(r) ==
    /\ r.op = "delete-bookmark" /\ r.pc = "filtered"
    /\ file' = Stringify(ProcessedBookmarks(FilteredBookmarks(r.seen, r.arg.URL)))
    /\ prev' = last
    /\ last' = [op |-> "saveBookmarks", by |-> r.op, req |-> r.arg, arg |-> r.arg,
                n |-> last.n + 1, overlapped |-> r.seenN # last.n,
                raced |-> r.readN # last.n, at |-> now,
                before |-> GetBookmarks(file), seen |-> r.seen,
                existing |-> r.existing, ok |-> TRUE]
    /\ reqs' = (reqs \ {r}) \cup {With(r, [pc |-> "unlink"])}
    /\ UNCHANGED <<now, capVars, cache, concurrent>>

\* ScreenshotToUnlink naming the screenshot just taken.
ScreenshotToUnlink_New(r) == r.newScreenshotPath

\* The file a handler removes after its write: the Screenshot of the
\* caller's copy (oldScreenshotPath, screenshotToDelete); Empty when
\* update-screenshot finds it to be the new path.
ScreenshotToUnlink(r) ==
    IF ~Truthy(Get(r.arg, "Screenshot")) THEN Empty
    ELSE IF r.op = "update-screenshot" /\ r.arg.Screenshot = r.newScreenshotPath THEN Empty
    ELSE r.arg.Screenshot

\* if (fs.existsSync(path)) { try { await fsp.unlink(path) } catch {...} }:
\* the files left, and whether unlink threw.
UnlinkOutcomes(path, files) ==
    IF path \in files
    THEN {[files |-> files \ {path}, failed |-> FALSE], [files |-> files, failed |-> TRUE]}
    ELSE {[files |-> files, failed |-> FALSE]}

\* update-screenshot and delete-bookmark after their write: the old file is
\* removed, a failure to remove it is logged, and the handler returns.
Unlink(r) ==
    /\ r.pc = "unlink"
    /\ \E o \in UnlinkOutcomes(ScreenshotToUnlink(r), disk) :
        /\ disk' = o.files
        /\ reqs' = (reqs \ {r}) \cup {With(r, [pc |-> "reply", unlinkFailed |-> o.failed])}
    /\ UNCHANGED <<storeVars, histVars, cap, cache>>

\* result.bookmark of the handler of r.
ResultBookmark(r) ==
    IF r.op = "toggle-favorite"
    THEN With(r.data, [Favorite |-> StringOf(r.data.Favorite = BoolTrue)])
    ELSE r.data

\* The cache after the renderer has handled the result of r.
CacheAfter(bookmarks, r) ==
    IF ~r.ok THEN bookmarks
    ELSE IF r.op = "add-bookmark" THEN <<ResultBookmark(r)>> \o bookmarks
    ELSE IF r.op = "toggle-favorite" THEN SetAt(bookmarks, r.index, ResultBookmark(r))
    ELSE IF r.op = "update-screenshot"
    THEN IF FindInCache(bookmarks, r.arg.URL) > 0
         THEN SetAt(bookmarks, FindInCache(bookmarks, r.arg.URL), ResultBookmark(r))
         ELSE bookmarks
    ELSE FilterOut(bookmarks, r.arg.URL)

\* The handler of r has returned and the renderer goes on after its await.
Reply(r) ==
    /\ r.pc = "reply"
    /\ reqs' = reqs \ {r}
    /\ cache' = CacheAfter(cache, r)
    /\ UNCHANGED <<storeVars, histVars, capVars>>

\* The app after start: the store empty or as an import left it, and the
\* cache loaded from it.
InitIPC ==
    /\ file \in {<<>>, ImportedStore}
    /\ now = 0
    /\ last = NoCall
    /\ prev = NoCall
    /\ disk = {}
    /\ cap = NoCapture
    /\ cache = GetBookmarks(file)
    /\ reqs = {}
    /\ concurrent = FALSE

\* The urls of the cards of the grid.
CardUrls == {cache[i].URL : i \in {j \in 1..Len(cache) : ~IsHole(cache[j])}}

Clicks ==
    \/ \E url \in AddUrlIn : ClickAdd(url)
    \/ \E url \in CardUrls : ClickToggle(url)
    \/ \E url \in CardUrls : ClickUpdate(url)
    \/ \E url \in CardUrls : ClickDelete(url)

Handlers ==
    \/ \E r \in reqs : AddProcessURL(r)
    \/ \E r \in reqs : ToggleGetBookmarks(r)
    \/ \E r \in reqs : UpdateTakeScreenshot(r)
    \/ \E r \in reqs : UpdateGetBookmarks(r)
    \/ \E r \in reqs : SaveBookmarkRead(r)
    \/ \E r \in reqs : SaveBookmarkWrite(r)
    \/ \E r \in reqs : DeleteGetBookmarks(r)
    \/ \E r \in reqs : DeleteSaveBookmarks(r)
    \/ \E r \in reqs : Unlink(r)
    \/ \E r \in reqs : Reply(r)

NextIPC == Clicks \/ Handlers

\* The renderer and the handlers, with up to MaxInFlight requests in flight.
SpecIPC == InitIPC /\ [][NextIPC]_vars

----------------------------------------------------------------------------
(* Claims about the handlers. *)

\* The records of the store.
Stored == GetBookmarks(file)

\* The two latest writes of the store are upserts of different URLs.
TwoUpsertsInARow ==
    /\ last.op = "saveBookmark" /\ prev.op = "saveBookmark"
    /\ last.arg.URL # prev.arg.URL

\* C6: of two upserts of different URLs that wrote one after the other, the
\* later one leaves its record in the store, and the earlier one's record is
\* in the store too when the two did not overlap, that is, when the later
\* one read the file after the earlier one had written it.
C6_UpsertsInTurnKeepBoth ==
    TwoUpsertsInARow =>
        /\ last.arg.URL \in UrlsOf(Stored)
        /\ ~last.overlapped => prev.arg.URL \in UrlsOf(Stored)

\* C6's case: two upserts of different URLs overlapped, both wrote, and the
\* store holds the record of the later writer only.
C6_Witness ==
    /\ TwoUpsertsInARow
    /\ last.overlapped
    /\ last.arg.URL \in UrlsOf(Stored)
    /\ prev.arg.URL \notin UrlsOf(Stored)

\* Every stored Screenshot is empty or names a file that exists.
StoredScreenshotsExist ==
    \A i \in 1..Len(Stored) : Stored[i].Screenshot = Empty \/ Stored[i].Screenshot \in disk

\* C7 as the spec states it: whatever the interleaving of the requests,
\* every stored record with a Screenshot refers to a file that exists.
C7_ScreenshotsExistUnderAnyInterleaving == StoredScreenshotsExist

\* C7, amended: as long as the requests were served one at a time, every
\* stored record with a Screenshot refers to a file that exists.
C7_ScreenshotsExistOneAtATime == ~concurrent => StoredScreenshotsExist

\* C7's case: requests served one at a time, the latest of them an
\* update-screenshot that has replaced the file of a record and removed the
\* old one.
C7_Witness ==
    /\ ~concurrent
    /\ \E r \in reqs :
        /\ r.op = "update-screenshot" /\ r.pc = "reply" /\ r.ok
        /\ Truthy(r.arg.Screenshot) /\ r.arg.Screenshot \notin disk
        /\ \E i \in 1..Len(Stored) :
            Stored[i].Screenshot = r.newScreenshotPath /\ r.newScreenshotPath \in disk

\* delete-bookmark has returned success for r and its reply is on its way.
Deleted(r) == r.op = "delete-bookmark" /\ r.pc = "reply" /\ r.ok

\* The Screenshot of the record that delete-bookmark found in the store for
\* r, Empty when it found none.
ScreenshotOfDeleted(r) ==
    OrElse(Get(ExistingBookmark(r.seen, r.arg.URL), "Screenshot"), Empty)

\* The records of other URLs are those the store held before the last write.
OthersUnchanged(url) == FilteredBookmarks(Stored, url) = FilteredBookmarks(last.before, url)

UpsertOfStored(handlers) ==
    /\ last.op = "saveBookmark" /\ last.by \in handlers
    /\ Found(ExistingBookmark(last.before, last.arg.URL))

\* C9, for requests served one at a time: an upsert by add-bookmark,
\* toggle-favorite or update-screenshot for a URL whose stored record has a
\* Date leaves that Date as it was.
C9_DateKeptByLaterUpsert ==
    (/\ ~concurrent
     /\ UpsertOfStored({"add-bookmark", "toggle-favorite", "update-screenshot"})
     /\ Truthy(ExistingBookmark(last.before, last.arg.URL).Date)) =>
        ExistingBookmark(Stored, last.arg.URL).Date
            = ExistingBookmark(last.before, last.arg.URL).Date

\* The field a handler is to change.
FieldOf(handler) == IF handler = "toggle-favorite" THEN "Favorite" ELSE "Screenshot"

----------------------------------------------------------------------------
(* The other operations of the record store: getBookmarks, saveBookmarks,    *)
(* searchBookmarks, filterByTags and exportToCSV, on a bookmarks.csv that    *)
(* the store wrote or that was edited or removed outside the application.    *)
(* A text is spelled letter by letter here, so that case and substrings are  *)
(* those of the text.                                                        *)

\* Store operations in one behaviour of SpecFile.
MaxFileOps == 2

UpperCase ==
    <<"A", "B", "C", "D", "E", "F", "G", "H", "I", "J", "K", "L", "M",
      "N", "O", "P", "Q", "R", "S", "T", "U", "V", "W", "X", "Y", "Z">>

LowerCase ==
    <<"a", "b", "c", "d", "e", "f", "g", "h", "i", "j", "k", "l", "m",
      "n", "o", "p", "q", "r", "s", "t", "u", "v", "w", "x", "y", "z">>

\* One letter of s.toLowerCase().
LowerOf(c) ==
    IF \E i \in 1..Len(UpperCase) : UpperCase[i] = c
    THEN LowerCase[CHOOSE i \in 1..Len(UpperCase) : UpperCase[i] = c]
    ELSE c

\* s.toLowerCase()
ToLowerCase(s) == [i \in 1..Len(s) |-> LowerOf(s[i])]

\* s.includes(t)
Includes(s, t) ==
    \E i \in 1..(Len(s) - Len(t) + 1) : SubSeq(s, i, i + Len(t) - 1) = t

\* s.split(','): the pieces between the commas, in order.
RECURSIVE Split(_)
Split(s) ==
    IF \A i \in 1..Len(s) : s[i] # ","
    THEN <<s>>
    ELSE LET comma == CHOOSE i \in 1..Len(s) :
                          s[i] = "," /\ \A j \in 1..(i - 1) : s[j] # ","
         IN  <<SubSeq(s, 1, comma - 1)>> \o Split(SubSeq(s, comma + 1, Len(s)))

\* The elements of a sequence.
Range(q) == {q[i] : i \in 1..Len(q)}

\* Two stored records: Tags 'AI, ml' under the Title 'AI Lab', and Tags
\* 'airplane,,' with a Description.
AiRecord ==
    [URL |-> <<"h", "t", "t", "p", "s", ":", "/", "/", "a">>,
     Title |-> <<"A", "I", " ", "L", "a", "b">>,
     Description |-> Empty,
     Tags |-> <<"A", "I", ",", " ", "m", "l">>,
     Date |-> <<"D">>, Favorite |-> StrTrue, Screenshot |-> Empty]

AirplaneRecord ==
    [URL |-> <<"h", "t", "t", "p", "s", ":", "/", "/", "b">>,
     Title |-> <<"J", "e", "t">>,
     Description |-> <<"x", "y", "z">>,
     Tags |-> <<"a", "i", "r", "p", "l", "a", "n", "e", ",", ",">>,
     Date |-> <<"D">>, Favorite |-> StrFalse, Screenshot |-> <<"s">>]

\* bookmarks.csv as it may be found: as the store wrote it, and as edited
\* outside: with the columns URL and Title alone, a row without URL, blanks
\* around a value, an empty Favorite.
FileIn ==
    {<<>>, Stringify(<<AiRecord>>), Stringify(<<AiRecord, AirplaneRecord>>),
     Stringify(<<AirplaneRecord, AiRecord>>),
     <<[URL |-> Cell(<<"w", " ">>), Title |-> Cell(<<"j">>)],
       [URL |-> Cell(Empty), Title |-> Cell(<<"k">>)]>>,
     <<[URL |-> Cell(<<" ">>), Title |-> Cell(<<"k">>)],
       [URL |-> Cell(<<"w">>), Title |-> Cell(<<" ", "j">>)]>>,
     <<[h \in Headers |-> Cell(IF h = "URL" THEN <<"v">> ELSE Empty)]>>}

\* The arguments of saveBookmark here: a record, and records without URL.
UpsertIn ==
    {[URL |-> <<"u">>, Title |-> <<"b">>], [Title |-> <<"a">>],
     [URL |-> Empty, Title |-> <<"a">>]}

\* The arguments of saveBookmarks: a value that is not an array, and arrays
\* of a stored record, of a record with a boolean Favorite and no other
\* field but the URL, and of a record without URL.
SaveBookmarksIn ==
    {[isArray |-> FALSE, items |-> <<>>]}
    \cup {[isArray |-> TRUE, items |-> q] :
            q \in {<<>>, <<AiRecord>>,
                   <<AiRecord, [URL |-> <<"u">>, Favorite |-> BoolTrue]>>,
                   <<[URL |-> <<"u">>, Favorite |-> BoolTrue], AirplaneRecord>>,
                   <<[Title |-> <<"a">>]>>,
                   <<AiRecord, [URL |-> Empty, Title |-> <<"a">>]>>}}

\* The queries of searchBookmarks.
QueryIn ==
    {Undefined, Empty, <<" ">>, <<"a", "i">>, <<" ", "L", "A", "B", " ">>,
     <<"X", "Y", "Z">>, <<"q", "q">>}

\* The arguments of filterByTags.
TagsIn ==
    {[isArray |-> FALSE, items |-> <<>>], [isArray |-> TRUE, items |-> <<>>],
     [isArray |-> TRUE, items |-> << <<"a", "i">> >>],
     [isArray |-> TRUE, items |-> << <<" ", "M", "L", " ">>, <<"z">> >>],
     [isArray |-> TRUE, items |-> << <<"p", "l", "a", "n", "e">>, Empty >>]}

\* The paths exportToCSV is given: none, and a path outside the store.
TargetIn == {Empty, <<"e", ".", "c", "s", "v">>}

\* The call of a store operation as last records it; fileAfter is the file
\* as the operation leaves it.
FileCall(op, arg) ==
    [op |-> op, arg |-> arg, at |-> now + 1, fileBefore |-> file,
     before |-> GetBookmarks(file)]

\* saveBookmarks(bookmarks), the write succeeding.
SaveBookmarks(arg) ==
    /\ now < MaxFileOps
    /\ now' = now + 1
    /\ prev' = last
    /\ IF ~arg.isArray
       THEN /\ last' = FileCall("saveBookmarks", arg)
                       @@ [ok |-> FALSE, io |-> FALSE, fileAfter |-> file]
            /\ file' = file
       ELSE /\ last' = FileCall("saveBookmarks", arg)
                       @@ [ok |-> TRUE, io |-> TRUE, ret |-> ProcessedBookmarks(arg.items),
                           fileAfter |-> Stringify(ProcessedBookmarks(arg.items))]
            /\ file' = Stringify(ProcessedBookmarks(arg.items))
    /\ UNCHANGED <<capVars, ipcVars, concurrent>>

\* getBookmarks() as an operation: it creates the file that is not there.
LoadAll ==
    /\ now < MaxFileOps
    /\ now' = now + 1
    /\ prev' = last
    /\ last' = FileCall("getBookmarks", Empty)
               @@ [ok |-> TRUE, io |-> TRUE, ret |-> GetBookmarks(file),
                   fileAfter |-> EnsuredFile(file)]
    /\ file' = EnsuredFile(file)
    /\ UNCHANGED <<capVars, ipcVars, concurrent>>

\* SearchTerm without toLowerCase and trim.
SearchTerm_AsTyped(query) == query

\* query.toLowerCase().trim()
SearchTerm(query) == Trim(ToLowerCase(query))

\* The filter of searchBookmarks.
SearchMatches(b, searchTerm) ==
    \E h \in {"URL", "Title", "Description", "Tags"} :
        Truthy(b[h]) /\ Includes(ToLowerCase(b[h]), searchTerm)

\* searchBookmarks(query) on the records read.
Searched(bookmarks, query) ==
    IF ~Truthy(query) THEN bookmarks
    ELSE IF ~Truthy(SearchTerm(query)) THEN bookmarks
    ELSE SelectSeq(bookmarks, LAMBDA b : SearchMatches(b, SearchTerm(query)))

\* searchBookmarks(query)
SearchBookmarks(query) ==
    /\ now < MaxFileOps
    /\ now' = now + 1
    /\ prev' = last
    /\ last' = FileCall("searchBookmarks", query)
               @@ [ok |-> TRUE, io |-> TRUE, ret |-> Searched(GetBookmarks(file), query),
                   fileAfter |-> EnsuredFile(file)]
    /\ file' = EnsuredFile(file)
    /\ UNCHANGED <<capVars, ipcVars, concurrent>>

\* tags.map(t => String(t).toLowerCase().trim())
FilterTags(tags) == [i \in 1..Len(tags) |-> Trim(ToLowerCase(tags[i]))]

\* String(bookmark.Tags).split(',').map(t => t.trim().toLowerCase())
\*     .filter(t => t)
BookmarkTags(tags) ==
    SelectSeq([i \in 1..Len(Split(tags)) |-> ToLowerCase(Trim(Split(tags)[i]))],
              LAMBDA t : Truthy(t))

\* HasTag with a tag matched by any tag that contains it.
HasTag_Substring(bookmarkTags, filterTag) ==
    \E t \in Range(bookmarkTags) : Includes(t, filterTag)

\* bookmarkTags.includes(filterTag)
HasTag(bookmarkTags, filterTag) == filterTag \in Range(bookmarkTags)

\* filterByTags(tags) on the records read; an argument that is not an array
\* stands for undefined.
Filtered(bookmarks, tags) ==
    IF ~tags.isArray \/ Len(tags.items) = 0 THEN bookmarks
    ELSE SelectSeq(bookmarks,
            LAMBDA b : /\ Truthy(b.Tags)
                       /\ \E filterTag \in Range(FilterTags(tags.items)) :
                              HasTag(BookmarkTags(b.Tags), filterTag))

\* filterByTags(tags)
FilterByTags(tags) ==
    /\ now < MaxFileOps
    /\ now' = now + 1
    /\ prev' = last
    /\ last' = FileCall("filterByTags", tags)
               @@ [ok |-> TRUE, io |-> TRUE, ret |-> Filtered(GetBookmarks(file), tags),
                   fileAfter |-> EnsuredFile(file)]
    /\ file' = EnsuredFile(file)
    /\ UNCHANGED <<capVars, ipcVars, concurrent>>

\* ExportString without the first record.
ExportString_SkipFirst(bookmarks) == Stringify(SubSeq(bookmarks, 2, Len(bookmarks)))

\* stringify(bookmarks, { header: true, columns: CSV_HEADERS })
ExportString(bookmarks) == Stringify(bookmarks)

\* exportToCSV(targetPath), the write succeeding; written is the content of
\* the file at targetPath below its header row.
ExportToCSV(targetPath) ==
    /\ now < MaxFileOps
    /\ now' = now + 1
    /\ prev' = last
    /\ IF ~Truthy(targetPath)
       THEN /\ last' = FileCall("exportToCSV", targetPath)
                       @@ [ok |-> FALSE, io |-> FALSE, fileAfter |-> file]
            /\ file' = file
       ELSE /\ last' = FileCall("exportToCSV", targetPath)
                       @@ [ok |-> TRUE, io |-> TRUE,
                           written |-> ExportString(GetBookmarks(file)),
                           ret |-> Len(GetBookmarks(file)),
                           fileAfter |-> EnsuredFile(file)]
            /\ file' = EnsuredFile(file)
    /\ UNCHANGED <<capVars, ipcVars, concurrent>>

\* bookmarks.csv is deleted outside the application.
RemoveFile ==
    /\ Exists(file)
    /\ file' = Absent
    /\ UNCHANGED <<now, histVars, capVars, ipcVars>>

InitFile ==
    /\ file \in FileIn
    /\ now = 0
    /\ last = NoCall
    /\ prev = NoCall
    /\ disk = {}
    /\ cap = NoCapture
    /\ cache = <<>>
    /\ reqs = {}
    /\ concurrent = FALSE

NextFile ==
    \/ \E bookmark \in UpsertIn : SaveBookmark(bookmark)
    \/ \E arg \in SaveBookmarksIn : SaveBookmarks(arg)
    \/ LoadAll
    \/ \E query \in QueryIn : SearchBookmarks(query)
    \/ \E tags \in TagsIn : FilterByTags(tags)
    \/ \E targetPath \in TargetIn : ExportToCSV(targetPath)
    \/ RemoveFile

SpecFile == InitFile /\ [][NextFile]_vars

----------------------------------------------------------------------------
(* Claims about the failures the capture pipeline contains. *)

\* C12: when page.goto has timed out, processURL returns a record and does
\* not throw; the Title of the record is the page title if one was obtained
\* and 'Untitled' otherwise, and Tags and Description are empty when the LLM
\* calls failed.
C12_NavigationTimeoutStillReturns ==
    (Exited(cap) /\ cap.fn = "processURL" /\ cap.navigation = "timeout") =>
        /\ cap.pc = "returned"
        /\ cap.out.Title = IF cap.titleThrew \/ cap.title = Empty
                           THEN <<"Untitled">> ELSE cap.title
        /\ cap.tagsFailed => cap.out.Tags = Empty
        /\ cap.descriptionFailed => cap.out.Description = Empty

\* C20: when browser.close() has failed in processURL or takeScreenshot
\* after navigation, extraction and screenshot all succeeded, the call
\* returns its normal result, the record or the path of the screenshot, and
\* does not throw.
C20_CloseFailureNotPropagated ==
    (/\ Exited(cap)
     /\ cap.navigation = "ok" /\ ~cap.titleThrew /\ cap.shot = "ok"
     /\ cap.failed >= 1) =>
        /\ cap.pc = "returned"
        /\ cap.out.Screenshot = cap.screenshotPath

----------------------------------------------------------------------------
(* Claims about the other operations of the record store. *)

\* last is an upsert of a record without URL, a replaceAll of a value that
\* is not a sequence, or a replaceAll of a sequence that has a record
\* without URL.
InvalidArgument ==
    \/ last.op = "saveBookmark" /\ ~Truthy(Get(last.arg, "URL"))
    \/ /\ last.op = "saveBookmarks"
       /\ \/ ~last.arg.isArray
          \/ \E i \in 1..Len(last.arg.items) : ~Truthy(Get(last.arg.items[i], "URL"))

\* C13: upsert of a record without URL, replaceAll of a record without URL
\* and replaceAll of a value that is not a sequence each fail, and the store
\* file is neither read nor written, so that its content is unchanged.
C13_InvalidArgumentsRejectedBeforeIO ==
    InvalidArgument =>
        /\ ~last.ok
        /\ ~last.io
        /\ last.fileAfter = last.fileBefore

\* The rows of a file that have a URL, as loadAll is to return them.
RowsWithUrl(f) ==
    SelectSeq(f, LAMBDA row : "URL" \in DOMAIN row /\ ParseCell(row.URL) # Empty)

\* C14: loadAll on an absent file returns no record and leaves a file of the
\* header row alone; on a present file it leaves the file as it is and
\* returns one record for every row with a URL, in order, each with exactly
\* the seven fields: the value of the row, '' for a field the row does not
\* have, 'false' for a Favorite it does not have.
C14_LoadAllDefaultsAndRecreates ==
    last.op = "getBookmarks" =>
        IF ~Exists(last.fileBefore)
        THEN last.ret = <<>> /\ last.fileAfter = <<>>
        ELSE /\ last.fileAfter = last.fileBefore
             /\ Len(last.ret) = Len(RowsWithUrl(last.fileBefore))
             /\ \A i \in 1..Len(last.ret) :
                 /\ DOMAIN last.ret[i] = Headers
                 /\ \A h \in Headers :
                     last.ret[i][h] =
                         IF h \in DOMAIN RowsWithUrl(last.fileBefore)[i]
                         THEN ParseCell(RowsWithUrl(last.fileBefore)[i][h])
                         ELSE IF h = "Favorite" THEN StrFalse ELSE Empty

\* C14's cases: loadAll has read a file that has a row without URL and no
\* Favorite column; the file was then removed, and loadAll has left the
\* header row alone.
C14_Witness ==
    /\ prev.op = "getBookmarks" /\ last.op = "getBookmarks"
    /\ Len(prev.fileBefore) = 2 /\ Len(prev.ret) = 1
    /\ "Favorite" \notin DOMAIN prev.fileBefore[1]
    /\ prev.ret[1].Favorite = StrFalse /\ prev.ret[1].Tags = Empty
    /\ ~Exists(last.fileBefore)
    /\ last.ret = <<>> /\ last.fileAfter = <<>> /\ file = <<>>

\* The field h of a record as replaceAll is to write it.
Normalised(record, h) ==
    IF h = "Favorite" THEN StringOf(Get(record, h) \in {StrTrue, BoolTrue})
    ELSE IF h \in DOMAIN record THEN record[h] ELSE Empty

\* C15: after replaceAll(rs) the file holds, below the header, one row for
\* every record of rs, in the order of rs, with the seven columns of the
\* header and the fields of the record; after replaceAll of the empty
\* sequence the file holds the header alone and loadAll returns no record.
C15_ReplaceAllWritesTheRecords ==
    (last.op = "saveBookmarks" /\ last.ok) =>
        /\ Len(last.fileAfter) = Len(last.arg.items)
        /\ \A i \in 1..Len(last.fileAfter) :
            /\ DOMAIN last.fileAfter[i] = Headers
            /\ \A h \in Headers :
                last.fileAfter[i][h].text = Normalised(last.arg.items[i], h)
        /\ last.arg.items = <<>> =>
               (last.fileAfter = <<>> /\ GetBookmarks(last.fileAfter) = <<>>)

\* C15's case: replaceAll of two records, one with a boolean Favorite, and
\* then replaceAll of the empty sequence, which has emptied the file.
C15_Witness ==
    /\ prev.op = "saveBookmarks" /\ prev.ok /\ Len(prev.arg.items) = 2
    /\ Get(prev.arg.items[2], "Favorite") = BoolTrue
    /\ last.op = "saveBookmarks" /\ last.ok /\ last.arg.items = <<>>
    /\ Len(last.fileBefore) = 2 /\ last.fileBefore[2].Favorite.text = StrTrue
    /\ file = <<>>

\* The query is empty, blank or undefined.
BlankQuery(q) == q = Undefined \/ \A i \in 1..Len(q) : q[i] = " "

\* The trimmed, lower-cased q is a substring of the lower-cased URL, Title,
\* Description or Tags of b.
QueryOccursIn(q, b) ==
    \E h \in {"URL", "Title", "Description", "Tags"} :
        \E i \in 1..Len(b[h]), j \in 1..Len(b[h]) :
            SubSeq(ToLowerCase(b[h]), i, j) = Trim(ToLowerCase(q))

\* C16: search(q) returns exactly the stored records, in order, that hold
\* the trimmed, lower-cased q in their lower-cased URL, Title, Description or
\* Tags; it returns all records for a q that is empty, blank or undefined,
\* and none for a q that occurs in no record.
C16_SearchIsSubstringMatch ==
    last.op = "searchBookmarks" =>
        IF BlankQuery(last.arg)
        THEN last.ret = last.before
        ELSE /\ last.ret = SelectSeq(last.before, LAMBDA b : QueryOccursIn(last.arg, b))
             /\ (\A i \in 1..Len(last.before) : ~QueryOccursIn(last.arg, last.before[i]))
                    => last.ret = <<>>

\* C16's cases: search(' LAB ') has returned the record titled 'AI Lab'
\* alone out of two, after search('qq') has returned none of them.
C16_Witness ==
    /\ prev.op = "searchBookmarks" /\ prev.arg = <<"q", "q">>
    /\ Len(prev.before) = 2 /\ prev.ret = <<>>
    /\ last.op = "searchBookmarks" /\ last.arg = <<" ", "L", "A", "B", " ">>
    /\ Len(last.before) = 2 /\ last.ret = <<AiRecord>>

\* The tags of a record: the pieces of Tags between its commas, trimmed and
\* lower-cased, without the empty ones.
TagsOf(b) ==
    {ToLowerCase(Trim(Split(b.Tags)[i])) : i \in 1..Len(Split(b.Tags))} \ {Empty}

\* At least one tag of b equals a trimmed, lower-cased element of ts.
SharesTag(b, ts) == \E i \in 1..Len(ts) : Trim(ToLowerCase(ts[i])) \in TagsOf(b)

\* C17 as the spec states it: filterByTags(ts) returns exactly the records
\* that have a tag equal to an element of ts, compared whole.
C17_FilterReturnsRecordsSharingATag ==
    (last.op = "filterByTags" /\ last.arg.isArray) =>
        last.ret = SelectSeq(last.before, LAMBDA b : SharesTag(b, last.arg.items))

\* C17, amended: for a ts that is not empty filterByTags(ts) returns exactly
\* the records that have a tag equal to an element of ts, compared whole;
\* for a ts that is empty or undefined it returns all records.
C17_FilterReturnsAllForNoTags ==
    last.op = "filterByTags" =>
        IF last.arg.isArray /\ last.arg.items # <<>>
        THEN last.ret = SelectSeq(last.before, LAMBDA b : SharesTag(b, last.arg.items))
        ELSE last.ret = last.before

\* C17's cases: filterByTags(['ai']) has returned the record of Tags
\* 'AI, ml' and not that of Tags 'airplane,,', after filterByTags([]) has
\* returned both.
C17_Witness ==
    /\ prev.op = "filterByTags" /\ prev.arg.isArray /\ prev.arg.items = <<>>
    /\ prev.ret = <<AirplaneRecord, AiRecord>>
    /\ last.op = "filterByTags" /\ last.arg.items = << <<"a", "i">> >>
    /\ last.before = <<AirplaneRecord, AiRecord>>
    /\ last.ret = <<AiRecord>>

\* C19: exportTo(path) writes one row for every record of the collection,
\* in order and with the seven columns of the header, to the file at path,
\* returns the number of records, and leaves the records that loadAll
\* returns, and their order, as they were.
C19_ExportLeavesTheStore ==
    (last.op = "exportToCSV" /\ last.ok) =>
        /\ Len(last.written) = Len(last.before)
        /\ \A i \in 1..Len(last.written) :
            /\ DOMAIN last.written[i] = Headers
            /\ \A h \in Headers : last.written[i][h].text = last.before[i][h]
        /\ last.ret = Len(last.before)
        /\ GetBookmarks(last.fileAfter) = last.before

\* C19's case: two records have been exported from a store of two, which
\* loadAll then returned as before.
C19_Witness ==
    /\ prev.op = "exportToCSV" /\ prev.ok /\ prev.ret = 2
    /\ Len(prev.written) = 2
    /\ last.op = "getBookmarks" /\ last.ret = prev.before
    /\ last.ret = <<AiRecord, AirplaneRecord>>


----------------------------------------------------------------------------
(* Further claims about the capture pipeline and the LLM client. *)

\* C21 as the spec states it, for the calls in which close did not throw:
\* when processURL has returned or thrown after page.screenshot failed, it
\* has returned a record, no file is left at the capture path, and the
\* record's Screenshot is the empty string.
C21_FailedScreenshotLeavesNoFile ==
    (Exited(cap) /\ cap.fn = "processURL" /\ cap.shot = "failed" /\ cap.failed = 0) =>
        /\ cap.pc = "returned"
        /\ cap.screenshotPath \notin disk
        /\ cap.out.Screenshot = Empty

\* The shapes of a body that is an object.
HasShape(data, key) == Truthy(Get(data, key))

\* C22 as the spec states it: for every provider the text extracted from a
\* body is its message.content when that is not empty, otherwise its
\* choices[0].message.content, otherwise its response, otherwise ''.
C22_ExtractionOrderForEveryProvider ==
    (last.op = "extractResponseText" /\ ~IsNull(last.data)) =>
        last.out =
            Ok(IF HasShape(last.data, "message_content")
               THEN last.data.message_content
               ELSE IF HasShape(last.data, "choices_0_message_content")
               THEN last.data.choices_0_message_content
               ELSE IF HasShape(last.data, "response")
               THEN last.data.response
               ELSE Empty)

\* C22, amended: message.content is looked at for the ollama provider only;
\* for every provider the text is otherwise choices[0].message.content,
\* otherwise response, otherwise ''.
C22_ExtractionOrderChatShapeForOllama ==
    (last.op = "extractResponseText" /\ ~IsNull(last.data)) =>
        last.out =
            Ok(IF last.provider = "ollama" /\ HasShape(last.data, "message_content")
               THEN last.data.message_content
               ELSE IF HasShape(last.data, "choices_0_message_content")
               THEN last.data.choices_0_message_content
               ELSE IF HasShape(last.data, "response")
               THEN last.data.response
               ELSE Empty)

\* C22's case: a body of all three shapes has given its message.content to
\* the ollama provider and its choices[0].message.content to another one.
C22_Witness ==
    /\ last.op = "extractResponseText" /\ last.provider = "ollama"
    /\ last.data = [message_content |-> <<"m">>, choices_0_message_content |-> <<"c">>,
                    response |-> <<"r">>]
    /\ last.out = Ok(<<"m">>)
    /\ prev.op = "extractResponseText" /\ prev.provider = "generic"
    /\ prev.data = last.data
    /\ prev.out = Ok(<<"c">>)

\* The text a request of the LLM client gave: '' when the request failed or
\* the reply holds no text.
ReplyText(http) ==
    IF HttpFailed(http) THEN Empty ELSE http.data.choices_0_message_content

\* C24: processURL asks for the tags and for the description only after the
\* browser session was closed, each on its own: the Tags of the record are
\* the text of the reply to generateTags and its Description that of the
\* reply to generateDescription, each '' when its own request failed or gave
\* no text, whatever became of the other; without an LLM client both are ''
\* and the record is returned all the same.
C24_TagsAndDescriptionIndependent ==
    /\ cap.pc = "llm" => (~cap.browser /\ cap.session = "closed" /\ cap.closes = 1)
    /\ (cap.pc = "returned" /\ cap.fn = "processURL") =>
          IF cap.llmClient
          THEN /\ cap.out.Tags = ReplyText(cap.tagsHttp)
               /\ cap.out.Description = ReplyText(cap.descriptionHttp)
          ELSE cap.out.Tags = Empty /\ cap.out.Description = Empty

\* C24's case: processURL has returned a record without Tags, the request of
\* generateTags having failed with HTTP 500, and with the Description that
\* generateDescription gave.
C24_Witness ==
    /\ cap.pc = "returned" /\ cap.fn = "processURL" /\ cap.llmClient
    /\ cap.tagsHttp.settled = "rejected" /\ cap.tagsHttp.status = 500
    /\ cap.out.Tags = Empty
    /\ cap.out.Description = <<"g">>

----------------------------------------------------------------------------
(* Captures running side by side.  The handlers of main.js await processURL *)
(* and takeScreenshot without a queue, so that a capture may start while    *)
(* another is between its launch and its screenshot.  now is Date.now(), in *)
(* milliseconds; reqs holds the captures started, each with the path it     *)
(* wrote to.                                                                *)

\* Captures in one behaviour of SpecShots.
MaxCaptures == 2
\* The last millisecond of one behaviour of SpecShots.
MaxClock == 3

\* The urls captured: two of scheme https, and three of scheme http whose
\* hosts begin with a, with b and with x.
ShotUrlIn ==
    {<<"https://", "u">>, <<"https://", "w">>,
     <<"http://", "a">>, <<"http://", "b">>, <<"http://", "x">>}

\* The upper four bits of the character code of c: 6 for a to o, 7 for p to
\* z.
HighNibble(c) == IF c \in {"a", "b"} THEN 6 ELSE 7

\* Buffer.from(url).toString('base64').replace(/[/+=]/g, '_').substring(0, 10):
\* ten characters of base64 hold the first seven bytes of the url and the
\* upper four bits of the eighth.  The eighth byte of an https url is the
\* second slash.
UrlHash(url) ==
    IF Head(url) = "https://" THEN <<"https:/", 2>>
    ELSE <<"http://", HighNibble(url[2])>>

\* `${Date.now()}_${urlHash}.png` in screenshotDir, at millisecond t.
Filename(url, t) == <<t>> \o UrlHash(url)

\* processURL(url) or takeScreenshot(url) is called.
StartShot(fn, url) ==
    /\ Cardinality(reqs) < MaxCaptures
    /\ reqs' = reqs \cup
               {[id |-> Cardinality(reqs) + 1, fn |-> fn, url |-> WithScheme(url),
                 pc |-> "launch", screenshotPath |-> Empty,
                 after |-> {r.id : r \in {q \in reqs : q.pc = "returned"}}]}
    /\ UNCHANGED <<file, now, histVars, capVars, cache, concurrent>>

\* launch, newPage, goto and the evaluations of the page: they take more
\* than a millisecond.
LaunchShot(r) ==
    /\ r.pc = "launch"
    /\ now < MaxClock
    /\ now' = now + 1
    /\ reqs' = (reqs \ {r}) \cup {[r EXCEPT !.pc = "screenshot"]}
    /\ UNCHANGED <<file, histVars, capVars, cache, concurrent>>

\* page.screenshot({ path: screenshotPath }) writes the file, over the one
\* that is there, and the call goes on to its return.
TakeShot(r) ==
    /\ r.pc = "screenshot"
    /\ disk' = disk \cup {Filename(r.url, now)}
    /\ reqs' = (reqs \ {r}) \cup
               {[r EXCEPT !.pc = "returned", !.screenshotPath = Filename(r.url, now)]}
    /\ prev' = last
    /\ last' = [op |-> "screenshot", id |-> r.id, n |-> 0,
                screenshotPath |-> Filename(r.url, now),
                overwrote |-> Filename(r.url, now) \in disk]
    /\ UNCHANGED <<file, now, cap, cache, concurrent>>

\* A millisecond passes.
Tick ==
    /\ now < MaxClock
    /\ now' = now + 1
    /\ UNCHANGED <<file, histVars, capVars, ipcVars>>

InitShots ==
    /\ file = <<>>
    /\ now = 0
    /\ last = NoCall
    /\ prev = NoCall
    /\ disk = {}
    /\ cap = NoCapture
    /\ cache = <<>>
    /\ reqs = {}
    /\ concurrent = FALSE

NextShots ==
    \/ \E fn \in {"processURL", "takeScreenshot"}, url \in ShotUrlIn : StartShot(fn, url)
    \/ \E r \in reqs : LaunchShot(r)
    \/ \E r \in reqs : TakeShot(r)
    \/ Tick

SpecShots == InitShots /\ [][NextShots]_vars

\* The captures that have written their screenshot.
Shots == {r \in reqs : r.pc = "returned"}

\* C23 as the spec states it: any two captures, of one url or of two, one
\* after the other or side by side, write to different paths, and no capture
\* writes over the file of another.
C23_PathsDifferForAnyTwoCaptures ==
    /\ \A r \in Shots, q \in Shots : r.id # q.id => r.screenshotPath # q.screenshotPath
    /\ last.op = "screenshot" => ~last.overwrote

----------------------------------------------------------------------------
(* Further claims about the store and the handlers. *)

\* No two of the records have the same URL.
UniqueUrls(bookmarks) ==
    \A i \in 1..Len(bookmarks), j \in 1..Len(bookmarks) :
        i # j => bookmarks[i].URL # bookmarks[j].URL

\* C25 as the spec states it: after any sequence of upserts and imports,
\* from a store without records, the store holds at most one record of each
\* URL.
C25_AtMostOneRecordPerUrl == UniqueUrls(GetBookmarks(file))

\* No row of the source has a URL, as the reader of the source sees it.
NoRowWithUrl(src) == \A i \in 1..Len(src.rows) : Trim(RowUrl(src.rows[i])) = Empty

\* C26: an import whose source is missing or has a malformed row rejects
\* with an error that says which, and an import whose source has no row with
\* a URL returns 0; in both cases nothing is written and the records of the
\* store are those before the call.
C26_FailedImportLeavesTheStore ==
    last.op = "importFromCSV" =>
        /\ (~last.arg.exists \/ last.arg.malformed) =>
              /\ ~last.ok /\ last.error # Empty
              /\ ~last.io /\ last.fileAfter = last.fileBefore
              /\ GetBookmarks(last.fileAfter) = last.before
        /\ (last.arg.exists /\ ~last.arg.malformed /\ NoRowWithUrl(last.arg)) =>
              /\ last.ok /\ last.ret = 0
              /\ ~last.io /\ last.fileAfter = last.fileBefore
              /\ GetBookmarks(last.fileAfter) = last.before

\* C26's case: an import of a file whose second row is malformed has been
\* rejected, the store holding the record a call before it wrote.
C26_Witness ==
    /\ last.op = "importFromCSV" /\ last.arg.malformed /\ last.arg.rows # <<>>
    /\ ~last.ok
    /\ prev.op = "saveBookmark" /\ prev.ok
    /\ Len(GetBookmarks(file)) = 1

\* The URLs of the entries of the cache.
CacheUrls(bookmarks) ==
    {bookmarks[i].URL : i \in {j \in 1..Len(bookmarks) : ~IsHole(bookmarks[j])}}

\* The cache holds no hole and no two entries of one URL.
OneEntryPerUrl(bookmarks) ==
    /\ \A i \in 1..Len(bookmarks) : ~IsHole(bookmarks[i])
    /\ Cardinality(CacheUrls(bookmarks)) = Len(bookmarks)

\* The renderer goes on after the await of the request r, which succeeded.
Replied(r, op) ==
    /\ r.op = op /\ r.pc = "reply" /\ r.ok
    /\ reqs' = reqs \ {r}

\* C27 as the spec states it, for requests sent one at a time: when
\* addBookmark has completed successfully, for a URL that is new or one that
\* is stored, the cache holds at most one entry of each URL and the URLs of
\* the cache are those of the store.
C27_CacheReconciledAfterAdd ==
    [][\A r \in reqs :
          (Replied(r, "add-bookmark") /\ ~concurrent) =>
              /\ OneEntryPerUrl(cache')
              /\ CacheUrls(cache') = UrlsOf(GetBookmarks(file'))]_vars

\* The entries of other URLs than url are the same, at the same places, in
\* before and in after.
OtherEntriesKept(before, after, url) ==
    /\ Len(after) = Len(before)
    /\ \A i \in 1..Len(before) :
          (IsHole(before[i]) \/ before[i].URL # url) => after[i] = before[i]

\* C28 as the spec states it: when toggleFavorite of the URL u has completed
\* successfully, whatever add or delete completed while its request was in
\* flight, the confirmed record is the cache entry of u, and the entries of
\* other URLs are as they were.
C28_ToggleUpdatesItsOwnEntry ==
    [][\A r \in reqs :
          Replied(r, "toggle-favorite") =>
              /\ OtherEntriesKept(cache, cache', r.arg.URL)
              /\ FindInCache(cache, r.arg.URL) > 0 =>
                    /\ FindInCache(cache', r.arg.URL) = FindInCache(cache, r.arg.URL)
                    /\ cache'[FindInCache(cache', r.arg.URL)] = ResultBookmark(r)]_vars

\* The screenshot files that records of the store name.
StoredScreenshots ==
    {GetBookmarks(file)[i].Screenshot : i \in 1..Len(GetBookmarks(file))}

\* C29 as the spec states it, for requests sent one at a time: when every
\* request to add, update or delete has completed, each screenshot file on
\* disk is the Screenshot of a stored record.
C29_NoScreenshotOrphaned ==
    (reqs = {} /\ ~concurrent) => disk \subseteq StoredScreenshots

----------------------------------------------------------------------------
(* Import and export from the renderer: the click, the handler of main.js   *)
(* with its file dialog, invokeWrapper of preload.js, and the code of       *)
(* app.importCSV or app.exportCSV after its await.  reqs holds the last     *)
(* call of each of the two, with the state of its button.                   *)

\* Clicks on Import CSV and Export CSV in one behaviour of SpecTransfer.
MaxTransfers == 3

\* What the file dialog of import-csv gives: cancelled, or the path of a
\* file: one with a malformed row, one without a row that has a URL, one
\* with the row of a URL.
ImportDialogIn ==
    {[canceled |-> TRUE]}
    \cup {[canceled |-> FALSE, src |-> src] :
            src \in {[exists |-> TRUE, malformed |-> TRUE, rows |-> <<>>],
                     [exists |-> TRUE, malformed |-> FALSE,
                      rows |-> <<[URL |-> Cell(Empty), Title |-> Cell(<<"i">>)]>>],
                     [exists |-> TRUE, malformed |-> FALSE,
                      rows |-> <<[URL |-> Cell(<<"https://", "u">>),
                                  Title |-> Cell(<<"i">>)]>>]}}

\* What the file dialog of export-csv gives: cancelled, or a path, the write
\* to which succeeds or fails.
ExportDialogIn ==
    {[canceled |-> TRUE]}
    \cup {[canceled |-> FALSE, filePath |-> <<"p">>, writeFails |-> w] : w \in BOOLEAN}

\* importFromCSV(sourcePath) on the store file f: what it resolves or
\* rejects with, and the store file it leaves.
ImportOutcome(f, src) ==
    IF ~src.exists
    THEN [threw |-> TRUE, value |-> <<"Import file not found: ">>, file |-> f]
    ELSE IF src.malformed
    THEN [threw |-> TRUE, value |-> <<"Failed to parse import file: ">>, file |-> f]
    ELSE IF Len(ImportedBookmarks(src.rows)) = 0
    THEN [threw |-> FALSE, value |-> 0, file |-> f]
    ELSE [threw |-> FALSE, value |-> Len(ImportedBookmarks(src.rows)),
          file |-> Stringify(ProcessedBookmarks(
                       MergedBookmarks(CurrentUrls(GetBookmarks(f)),
                                       ImportedBookmarks(src.rows))))]

\* ipcMain.handle('import-csv'): the result it returns and the store file
\* it leaves.
ImportCsvHandler(f, dialog) ==
    IF dialog.canceled
    THEN [result |-> [success |-> FALSE, message |-> <<"Import cancelled">>], file |-> f]
    ELSE IF ImportOutcome(f, dialog.src).threw
    THEN [result |-> HandleIPCError(ImportOutcome(f, dialog.src).value), file |-> f]
    ELSE [result |-> [success |-> TRUE, count |-> ImportOutcome(f, dialog.src).value,
                      message |-> <<"Successfully processed ">>],
          file |-> ImportOutcome(f, dialog.src).file]

\* ipcMain.handle('export-csv')
ExportCsvHandler(f, dialog) ==
    IF dialog.canceled
    THEN [result |-> [success |-> FALSE, message |-> <<"Export cancelled">>], file |-> f]
    ELSE IF dialog.writeFails
    THEN [result |-> HandleIPCError(<<"Failed to export CSV: ">>), file |-> EnsuredFile(f)]
    ELSE [result |-> [success |-> TRUE, count |-> Len(GetBookmarks(f)),
                      message |-> <<"Successfully exported ">>],
          file |-> EnsuredFile(f)]

\* invokeWrapper(channel): the result of a handler that succeeded is handed
\* on; for any other result the promise rejects, with result.error or a
\* message of its own.
InvokeWrapper(channel, result) ==
    IF result.success THEN Ok(result)
    ELSE Throw(OrElse(Get(result, "error"),
                      <<"An unknown error occurred in the main process during ",
                        channel, ".">>))

\* showToast(message, type = 'info')
Toast(message, type) == [message |-> message, type |-> type]

\* app.importCSV after its await: the branch taken, the toast shown, and
\* whether the data are loaded again.
ImportCSVAfter(wrapped) ==
    IF wrapped.threw
    THEN [branch |-> "catch", reload |-> FALSE,
          toast |-> Toast(<<"Critical error importing: ">> \o wrapped.value, "error")]
    ELSE IF wrapped.value.success
    THEN [branch |-> "success", reload |-> TRUE,
          toast |-> Toast(OrElse(Get(wrapped.value, "message"), <<"Imported">>), "info")]
    ELSE IF Get(wrapped.value, "message") = <<"Import cancelled">>
    THEN [branch |-> "cancelled", reload |-> FALSE,
          toast |-> Toast(<<"Import cancelled">>, "info")]
    ELSE [branch |-> "failed", reload |-> FALSE,
          toast |-> Toast(<<"Import failed: ">>
                          \o OrElse(Get(wrapped.value, "message"),
                                    OrElse(Get(wrapped.value, "error"),
                                           <<"Unknown error">>)), "error")]

\* app.exportCSV after its await.
ExportCSVAfter(wrapped) ==
    IF wrapped.threw
    THEN [branch |-> "catch", reload |-> FALSE,
          toast |-> Toast(<<"Critical error exporting: ">> \o wrapped.value, "error")]
    ELSE IF wrapped.value.success
    THEN [branch |-> "success", reload |-> FALSE,
          toast |-> Toast(OrElse(Get(wrapped.value, "message"), <<"Exported">>), "info")]
    ELSE [branch |-> "failed", reload |-> FALSE,
          toast |-> Toast(<<"Export failed: ">>
                          \o OrElse(Get(wrapped.value, "message"),
                                    OrElse(Get(wrapped.value, "error"),
                                           <<"Unknown error">>)), "error")]

\* app.importCSV() or app.exportCSV() up to its await: the button is
\* disabled, and a disabled button takes no click.
ClickTransfer(op, dialog) ==
    /\ now < MaxTransfers
    /\ now' = now + 1
    /\ \A r \in reqs : r.op = op => ~r.disabled
    /\ reqs' = {r \in reqs : r.op # op}
               \cup {[id |-> now + 1, op |-> op, dialog |-> dialog, pc |-> "main",
                      disabled |-> TRUE, fileBefore |-> file, fileAfter |-> file,
                      result |-> [success |-> FALSE], wrapped |-> Ok(Empty),
                      after |-> [branch |-> "none"]]}
    /\ UNCHANGED <<file, histVars, capVars, cache, concurrent>>

\* The handler of main.js, from the dialog to its return.
TransferMain(r) ==
    /\ r.pc = "main"
    /\ LET h == IF r.op = "import-csv" THEN ImportCsvHandler(file, r.dialog)
                ELSE ExportCsvHandler(file, r.dialog)
       IN  /\ file' = h.file
           /\ reqs' = (reqs \ {r}) \cup
                      {[r EXCEPT !.pc = "preload", !.result = h.result,
                                 !.fileBefore = file, !.fileAfter = h.file]}
    /\ UNCHANGED <<now, histVars, capVars, cache, concurrent>>

\* The then of invokeWrapper.
TransferPreload(r) ==
    /\ r.pc = "preload"
    /\ reqs' = (reqs \ {r}) \cup
               {[r EXCEPT !.pc = "renderer", !.wrapped = InvokeWrapper(r.op, r.result)]}
    /\ UNCHANGED <<file, now, histVars, capVars, cache, concurrent>>

\* app.importCSV or app.exportCSV from its await to the end of its finally
\* block, which enables the button.
TransferRenderer(r) ==
    /\ r.pc = "renderer"
    /\ LET after == IF r.op = "import-csv" THEN ImportCSVAfter(r.wrapped)
                    ELSE ExportCSVAfter(r.wrapped)
       IN  /\ cache' = IF after.reload THEN GetBookmarks(file) ELSE cache
           /\ reqs' = (reqs \ {r}) \cup
                      {[r EXCEPT !.pc = "done", !.after = after, !.disabled = FALSE]}
           /\ prev' = last
           /\ last' = [op |-> r.op, n |-> 0, toast |-> after.toast]
    /\ UNCHANGED <<file, now, capVars, concurrent>>

InitTransfer ==
    /\ file \in {<<>>, ImportedStore}
    /\ now = 0
    /\ last = NoCall
    /\ prev = NoCall
    /\ disk = {}
    /\ cap = NoCapture
    /\ cache = GetBookmarks(file)
    /\ reqs = {}
    /\ concurrent = FALSE

NextTransfer ==
    \/ \E dialog \in ImportDialogIn : ClickTransfer("import-csv", dialog)
    \/ \E dialog \in ExportDialogIn : ClickTransfer("export-csv", dialog)
    \/ \E r \in reqs : TransferMain(r)
    \/ \E r \in reqs : TransferPreload(r)
    \/ \E r \in reqs : TransferRenderer(r)

SpecTransfer == InitTransfer /\ [][NextTransfer]_vars

\* C30 as the spec states it: when the user has cancelled the file dialog of
\* an import or an export, the handler has answered success: false with the
\* message 'Import cancelled' or 'Export cancelled', the renderer has taken
\* that result in a branch other than its catch block and shown a notice
\* that is not an error, for an import the notice 'Import cancelled', the
\* store is as it was, and the button is enabled again.
C30_CancelIsNotAnError ==
    \A r \in reqs :
        (r.pc = "done" /\ r.dialog.canceled) =>
            /\ r.result = [success |-> FALSE,
                           message |-> IF r.op = "import-csv" THEN <<"Import cancelled">>
                                       ELSE <<"Export cancelled">>]
            /\ r.after.branch # "catch"
            /\ r.after.toast.type # "error"
            /\ r.op = "import-csv" => r.after.toast = Toast(<<"Import cancelled">>, "info")
            /\ r.fileAfter = r.fileBefore
            /\ ~r.disabled
====
